---- MODULE Spec2Model ----
(***************************************************************************)
(* Model of the Bluetooth recovery routine clearBluetoothCacheForDevice    *)
(* (src/src/ble/device-manager.js and its extended variant                 *)
(* src/unnamed/part_000).  One action is one stretch of JavaScript that    *)
(* runs without yielding: from a resumption (the call itself, a promise    *)
(* settling, a timer firing) up to the next await.                         *)
(***************************************************************************)
EXTENDS Integers, Sequences, FiniteSets, TLC

\* ------------------------------------------------------------------ bounds
MaxRuns      == 2   \* run identities available to callers
MaxConnected == 2   \* devices connected when the model starts
MaxFaults    == 2   \* failures the environment injects in one behaviour
MaxThrown    == 1   \* targets whose isConnected() throws in one run
MaxRecords   == 2   \* pairing records navigator.bluetooth.getDevices() returns
MaxClientId  == 2   \* client ids passed to setServices(): 0..MaxClientId
MaxPipCalls  == 2   \* calls of PIPManager.toggle() / enterPIP() in one behaviour

RunIds == 1..MaxRuns

\* ------------------------------------------------------------ the registry
\* device-manager.js:5-12
allDevices ==
    << "controllable", "heartRateMonitor", "powerMeter",
       "speedCadenceSensor", "moxy", "coreTemp" >>

Range(s) == {s[i] : i \in DOMAIN s}

Devices == Range(allDevices)

\* instance.getDeviceType(): each singleton reports its own role (one device
\* per role); the role tags are the values of the Device enum.
getDeviceType(d) == d

\* deviceType argument: null/undefined (the default), a role of the enum, or
\* a role no registered instance reports.
Null == "null"
UnknownRole == "unknownRole"
RequestTypes == Devices \cup {Null, UnknownRole}

\* device-manager.js:23   const typeName = deviceType || 'ALL'
typeName(deviceType) == IF deviceType = Null THEN "ALL" ELSE deviceType

devicesToClearEverything(deviceType) == allDevices

\* device-manager.js:26-28
devicesToClear(deviceType) ==
    IF deviceType # Null
      THEN SelectSeq(allDevices, LAMBDA d : getDeviceType(d) = deviceType)
      ELSE allDevices

MapCallsHeadOnly(seq) == IF seq = << >> THEN {} ELSE {seq[1]}

\* device-manager.js:37, 52   devicesToClear.map(async (deviceInstance) => ...)
\* map() calls the arrow on every element before it returns the promises.
MapCalls(seq) == Range(seq)

NoTargetsNever(targets) == FALSE

\* device-manager.js:30   devicesToClear.length === 0
NoTargets(targets) == Len(targets) = 0

\* ----------------------------------------------------------------- promises
\* A task is the promise of one async arrow function of a map(); its states:
\*   "none"            not created
\*   "awaitDisconnect" suspended at  await deviceInstance.disconnect()
\*   "awaitTimer"      suspended at  await new Promise(r => setTimeout(r, 500))
\*   "awaitForget"     suspended at  await deviceInstance.forgetDevice()
\*   "fulfilled" / "rejected"
PromiseAny(tasks, T) ==
    IF \E d \in T : tasks[d] = "rejected" THEN "rejected"
    ELSE IF \E d \in T : tasks[d] = "fulfilled" THEN "fulfilled"
    ELSE "pending"

\* Promise.all over the tasks of T (device-manager.js:48, 59): rejected as
\* soon as one is, fulfilled once all are.
PromiseAll(tasks, T) ==
    IF \E d \in T : tasks[d] = "rejected" THEN "rejected"
    ELSE IF \A d \in T : tasks[d] = "fulfilled" THEN "fulfilled"
    ELSE "pending"

DisconnectTaskSkipsWait == "fulfilled"

\* device-manager.js:40-42: after  await deviceInstance.disconnect()  the task
\* waits on a 500 ms timer before it ends.
DisconnectTaskAfterResolve == "awaitTimer"

DisconnectTaskRethrows == "rejected"

\* device-manager.js:44-46: the catch of a disconnect task swallows the error,
\* so the task's promise fulfils.
DisconnectTaskAfterThrow == "fulfilled"

ForgetTaskRethrows == "rejected"

\* device-manager.js:55-57: the catch of a forget task swallows the error.
ForgetTaskAfterThrow == "fulfilled"

ShouldDisconnectAlways(isConn) == TRUE

\* device-manager.js:39   if (deviceInstance.isConnected())
ShouldDisconnect(isConn) == isConn

\* ------------------------------------------------------------------ strings
\* A string is the sequence of its characters.
UpperCase ==
    << "A", "B", "C", "D", "E", "F", "G", "H", "I", "J", "K", "L", "M",
       "N", "O", "P", "Q", "R", "S", "T", "U", "V", "W", "X", "Y", "Z" >>
LowerCase ==
    << "a", "b", "c", "d", "e", "f", "g", "h", "i", "j", "k", "l", "m",
       "n", "o", "p", "q", "r", "s", "t", "u", "v", "w", "x", "y", "z" >>

\* String.prototype.toLowerCase (part_000:114)
toLowerCase(s) ==
    [i \in DOMAIN s |->
        IF \E k \in DOMAIN UpperCase : UpperCase[k] = s[i]
          THEN LowerCase[CHOOSE k \in DOMAIN UpperCase : UpperCase[k] = s[i]]
          ELSE s[i]]

\* String.prototype.includes (part_000:100, 114)
includes(s, sub) ==
    \E i \in 0..(Len(s) - Len(sub)) : SubSeq(s, i + 1, i + Len(sub)) = sub

bluetooth == << "b", "l", "u", "e", "t", "o", "o", "t", "h" >>
ble       == << "b", "l", "e" >>
device    == << "d", "e", "v", "i", "c", "e" >>

IsBleKeyCaseSensitive(key) ==
    includes(key, bluetooth) \/ includes(key, ble) \/ includes(key, device)

\* part_000:113-117, 122-126: the filter of the keys to remove.
IsBleKey(key) ==
    \/ includes(toLowerCase(key), bluetooth)
    \/ includes(toLowerCase(key), ble)
    \/ includes(toLowerCase(key), device)

\* part_000:119, 128: removeItem() on every key the filter kept; the other
\* entries are not touched.
Purged(store) == [k \in {x \in DOMAIN store : ~IsBleKey(x)} |-> store[k]]

\* The keys the stores may hold when the model starts: "BLE-id", "table",
\* "theme", "Device", "bluetooth" in localStorage; "devices", "units" in
\* sessionStorage.
KeyPool ==
    { << "B", "L", "E", "-", "i", "d" >>, << "t", "a", "b", "l", "e" >>,
      << "t", "h", "e", "m", "e" >>, << "D", "e", "v", "i", "c", "e" >>, bluetooth }
SessionPool == { << "d", "e", "v", "i", "c", "e", "s" >>, << "u", "n", "i", "t", "s" >> }

IsBleDatabaseAnyCase(name) ==
    name # << >> /\ (includes(toLowerCase(name), bluetooth) \/ includes(toLowerCase(name), ble))

\* part_000:100   db.name && (db.name.includes('bluetooth') || db.name.includes('ble'))
IsBleDatabase(name) ==
    name # << >> /\ (includes(name, bluetooth) \/ includes(name, ble))

\* The names indexedDB.databases() may list: "ble-db", "BLE", "app", and the
\* empty sequence for a database with no name (db.name undefined or '').
DbPool ==
    { << "b", "l", "e", "-", "d", "b" >>, << "B", "L", "E" >>, << "a", "p", "p" >>, << >> }

\* A store holding the keys K; the value of a key is a string of its own.
StoreWith(K) == [k \in K |-> << "v", ":" >> \o k]

\* The key/value stores of the page.
Stores == {"localStorage", "sessionStorage"}

\* ------------------------------------------------------------------- state
VARIABLES
    calls,            \* requests the callers have yet to make (deviceType values)
    variant,          \* which build runs: "basic" (device-manager.js) or "extended" (part_000)
    caps,             \* optional platform APIs present: subset of Caps
    paired,           \* pairing records navigator.bluetooth.getDevices() lists
    connected,        \* [Devices -> BOOLEAN]: transport state of each device
    pc,               \* [RunIds -> program point of the run]
    request,          \* [RunIds -> deviceType argument of the run]
    outcome,          \* [RunIds -> "pending" | "resolved" | "rejected"]: the promise recover returned
    returned,         \* [RunIds -> the value that promise resolved with]
    disconnectTasks,  \* [RunIds -> [Devices -> task state]]  (disconnectPromises)
    forgetTasks,      \* [RunIds -> [Devices -> task state]]  (forgetPromises)
    sawConnected,     \* [RunIds -> devices whose isConnected() returned true]
    isConnectedCalls, \* [RunIds -> [Devices -> Nat]]
    disconnectCalls,  \* [RunIds -> [Devices -> Nat]]
    forgetCalls,      \* [RunIds -> [Devices -> Nat]]
    failed,           \* [RunIds -> set of <<operation, device>> that threw]
    idx,              \* [RunIds -> position of  for (const device of devices)]
    processed,        \* [RunIds -> indices of the records whose loop body ran]
    platformCalls,    \* [RunIds -> set of <<record index, "disconnect" | "forget">>]
    attempted,        \* [RunIds -> sweep sub-steps started]
    sweepFailed,      \* [RunIds -> set of <<sub-step, record index or 0>> that threw]
    cleanups,         \* [RunIds -> times step 4 ran its clearTimeout loop]
    log,              \* console output: set of <<run, level, message, subject>>
    timers,           \* pending setTimeout callbacks: set of <<run, kind, device>>
    faults,           \* failures injected so far
    waited,           \* [RunIds -> targets whose 500 ms wait has elapsed]
    forgotConnected,  \* [RunIds -> targets that were connected when forgetDevice() was called]
    clicks,           \* button presses the user has yet to make: <<button, answer to confirm()>>
    answered,         \* the presses handled so far, in order: <<button, answer>>
    handler,          \* [RunIds -> the click handler awaiting the run, or "none"]
    notifications,    \* ui:notification events dispatched so far: sequence of <<run, type>>
    stores,           \* the key/value stores the page can reach: subset of Stores
    localStorage,     \* [keys of localStorage -> their values]
    sessionStorage,   \* [keys of sessionStorage -> their values]
    databases,        \* names indexedDB.databases() lists
    dbDeleting,       \* deleteDatabase() requests not yet settled: set of <<run, name>>
    awaitsEach,       \* the direct caller awaits each call before it makes the next
    start             \* the devices and the platform as they were when the model started

\* The picture-in-picture overlay (pip.js:8-400) and its button (pip.js:507-607).
VARIABLES
    pipApis,          \* PIP APIs of the browser: subset of PipApis
    isSupported,      \* PIPManager.isSupported
    isPIPActive,      \* PIPManager.isPIPActive
    pipWindow,        \* PIPManager.pipWindow: NullRef, or the window an enter call opened
    pipDocument,      \* PIPManager.pipDocument: Unset, NullRef, or the document of that window
    callPc,           \* [CallIds -> where the call of toggle() / enterPIP() stands]
    callResult,       \* [CallIds -> "none" | "true" | "false"]: what its promise resolved with
    callVia,          \* [CallIds -> "none" | "click" | "call"]: a press of <pip-control> or another caller
    exiting,          \* toggle() has called exitPIP() and no leave has been handled since
    pipOpen,          \* the PIP window the browser shows: 0, or the call that opened it
    exitRequested,    \* a document.exitPictureInPicture() the browser has yet to carry out
    pipTasks,         \* events the browser has queued for the page: sequence of <<event, window>>
    pipVideos,        \* the #pip-video elements in the document, in document order, by call
    setupPc,          \* where the one call of setupPIPContent() stands: "idle" | "requestWindow" | "done"
    controlAttached,  \* <pip-control> is in the document (between its two callbacks)
    controlIsActive,  \* PIPControl.isActive
    controlHeard,     \* a pip event has reached the control since it was attached
    lastDispatch      \* the last pip event dispatched: "none" | "pip:entered" | "pip:exited"

\* The application configuration (config.js).
VARIABLES
    env,              \* Config.env, its three service ids: [Services -> JS value]
    lastArgs          \* the argument of the last setServices() call, NoValue before the first

configVars == << env, lastArgs >>

pipVars == << pipApis, isSupported, isPIPActive, pipWindow, pipDocument, callPc, callResult,
              callVia, exiting, pipOpen, exitRequested, pipTasks, pipVideos, setupPc,
              controlAttached,
              controlIsActive, controlHeard, lastDispatch >>

\* What no step of clearBluetoothCacheForDevice changes: the build, the
\* platform APIs, the caller, the first state, the overlay and the
\* configuration.
platformVars == << variant, caps, awaitsEach, start, pipVars, configVars >>
deviceVars == << connected, isConnectedCalls, disconnectCalls, forgetCalls, sawConnected >>
taskVars   == << disconnectTasks, forgetTasks >>
loopVars   == << idx, processed, platformCalls >>
histVars   == << waited, forgotConnected >>
uiVars     == << clicks, answered, handler >>
storageVars == << localStorage, sessionStorage >>
dbVars     == << databases, dbDeleting >>
vars == << calls, variant, caps, paired, connected, pc, request, outcome, returned,
           disconnectTasks, forgetTasks, sawConnected, isConnectedCalls,
           disconnectCalls, forgetCalls, failed, idx, processed, platformCalls,
           attempted, sweepFailed, cleanups, log, timers, faults, waited,
           forgotConnected, clicks, answered, handler, notifications, stores, localStorage,
           sessionStorage, databases, dbDeleting, awaitsEach, start, pipVars, configVars >>

PipApis == {"documentPictureInPicture", "requestPictureInPicture"}
CallIds == 1..MaxPipCalls
\* The window setupDocumentPIP opens (pip.js:243).
SetupWindow == MaxPipCalls + 1
NullRef == 0
Unset == -1

\* pip.js:9-26: the fields the constructor sets; pipDocument is not among them.
PIPManagerConstructed ==
    /\ isPIPActive = FALSE
    /\ pipWindow = NullRef
    /\ pipDocument = Unset
    /\ callPc = [k \in CallIds |-> "idle"]
    /\ callResult = [k \in CallIds |-> "none"]
    /\ callVia = [k \in CallIds |-> "none"]
    /\ exiting = FALSE
    /\ pipOpen = 0
    /\ exitRequested = FALSE
    /\ pipTasks = << >>
    /\ pipVideos = << >>
    /\ setupPc = "idle"
    /\ lastDispatch = "none"

\* pip.js:508-512
PIPControlConstructed ==
    /\ controlIsActive = FALSE
    /\ controlHeard = FALSE

\* JavaScript values: undefined, null, numbers; NoValue stands where no value
\* was passed at all.
JsUndefined == [type |-> "undefined", value |-> 0]
JsNull == [type |-> "null", value |-> 0]
JsNumber(n) == [type |-> "number", value |-> n]
NoValue == [type |-> "none", value |-> 0]

\* a ?? b
Coalesce(a, b) == IF a \in {JsUndefined, JsNull} THEN b ELSE a

\* config.js:16-18, 23-25: STRAVA_CLIENT_ID from args.strava, and so on.
Services == {"strava", "intervals", "trainingPeaks"}

\* config.js:3-5   #defaultStravaClientId = 0;  (and the two others)
privateDefaultClientId(service) == JsNumber(0)

\* config.js:16-18, 23-25 read this.defaultStravaClientId (and the two
\* others): a public property, which no line of the class defines; the
\* private fields of lines 3-5 are other names and are read nowhere.
defaultClientId(service) == JsUndefined

\* config.js:7-21: the three ids as the constructor sets them.
ConfigConstructed ==
    /\ env = [s \in Services |-> defaultClientId(s)]
    /\ lastArgs = [s \in Services |-> NoValue]

\* pip.js:28-40   return hasDocumentPIP || hasVideoPIP
checkPIPSupport(apis) == apis # {}

\* A page whose browser has the PIP APIs `apis`, with <pip-control> in the
\* document or not.
PipPage(apis, attached) ==
    /\ pipApis = apis
    /\ isSupported = checkPIPSupport(apis)
    /\ controlAttached = attached

\* A page without the overlay.
NoPip == PipPage({}, FALSE)

NoTasks == [d \in Devices |-> "none"]
Zero    == [d \in Devices |-> 0]

\* The optional platform APIs the sweep probes:
\*   'bluetooth' in navigator && navigator.bluetooth.getDevices   (line 64)
\*   'caches' in window                                           (part_000:87)
\*   'indexedDB' in window                                        (part_000:94)
Caps == {"bluetooth", "caches", "indexedDB"}
Variants == {"basic", "extended"}

\* A pairing record: device.gatt.connected, and whether device.forget exists.
Records == [connected : BOOLEAN, forget : BOOLEAN]
RecordLists == UNION {[1..n -> Records] : n \in 0..MaxRecords}

\* The value of a call that ends by `return;` or by falling off the end.
Undefined == [type |-> "undefined"]
NotYet    == [type |-> "none"]

InitRun ==
    /\ pc = [r \in RunIds |-> "idle"]
    /\ request = [r \in RunIds |-> Null]
    /\ outcome = [r \in RunIds |-> "pending"]
    /\ returned = [r \in RunIds |-> NotYet]
    /\ disconnectTasks = [r \in RunIds |-> NoTasks]
    /\ forgetTasks = [r \in RunIds |-> NoTasks]
    /\ sawConnected = [r \in RunIds |-> {}]
    /\ isConnectedCalls = [r \in RunIds |-> Zero]
    /\ disconnectCalls = [r \in RunIds |-> Zero]
    /\ forgetCalls = [r \in RunIds |-> Zero]
    /\ failed = [r \in RunIds |-> {}]
    /\ idx = [r \in RunIds |-> 0]
    /\ processed = [r \in RunIds |-> {}]
    /\ platformCalls = [r \in RunIds |-> {}]
    /\ attempted = [r \in RunIds |-> {}]
    /\ sweepFailed = [r \in RunIds |-> {}]
    /\ cleanups = [r \in RunIds |-> 0]
    /\ log = {}
    /\ timers = {}
    /\ faults = 0
    /\ waited = [r \in RunIds |-> {}]
    /\ forgotConnected = [r \in RunIds |-> {}]
    /\ handler = [r \in RunIds |-> "none"]
    /\ answered = << >>
    /\ notifications = << >>
    /\ dbDeleting = {}
    /\ PIPManagerConstructed
    /\ PIPControlConstructed
    /\ ConfigConstructed

\* What the devices and the platform hold in the current state.
Snapshot ==
    [connected |-> connected, paired |-> paired, localStorage |-> localStorage,
     sessionStorage |-> sessionStorage, databases |-> databases]

ConnectedStates ==
    {c \in [Devices -> BOOLEAN] : Cardinality({d \in Devices : c[d]}) <= MaxConnected}

\* The platform with every optional API and one live pairing record.
FullPlatform ==
    /\ variant = "extended"
    /\ caps = Caps
    /\ paired = << [connected |-> TRUE, forget |-> TRUE] >>

\* Both stores are there, each with a key to remove and a key to keep.
FullStorage ==
    /\ stores = Stores
    /\ localStorage = StoreWith({<< "B", "L", "E", "-", "i", "d" >>, << "t", "h", "e", "m", "e" >>})
    /\ sessionStorage = StoreWith(SessionPool)

\* The first k devices of the registry connected, the others not.
FirstConnected(k) == [d \in Devices |-> \E i \in 1..k : allDevices[i] = d]

\* One call of clearBluetoothCacheForDevice, in one of these settings:
\*  - a direct request for one role, registered or not, with any devices connected,
\*    on the full platform in the build with the longer sweep (steps 1 and 2
\*    are the same lines in both builds);
\*  - a press of "reset all" (pip.js:473), confirmed or declined; its request
\*    treats the six devices alike; the first k of them are connected, on
\*    the same platform;
\*  - a press of "reset HRM" (pip.js:451), confirmed or declined, in either
\*    build on every platform;
\*  - a confirmed press of "reset HRM" in the build with the longer sweep, on a
\*    platform with none of the probed APIs, with either store there or not
\*    and any keys of the pools in them;
\*  - the same press on a platform with IndexedDB alone, listing any databases
\*    of the pool.
Init ==
    /\ InitRun
    /\ \/ /\ calls \in {<<t>> : t \in RequestTypes \ {Null}}
          /\ clicks = << >>
          /\ connected \in ConnectedStates
          /\ FullPlatform
          /\ FullStorage
          /\ databases = {}
       \/ /\ calls = << >>
          /\ clicks \in {<< <<"onResetAll", a>> >> : a \in BOOLEAN}
          /\ connected \in {FirstConnected(k) : k \in 0..MaxConnected}
          /\ FullPlatform
          /\ FullStorage
          /\ databases = {}
       \/ /\ calls = << >>
          /\ clicks \in {<< <<"onResetHRM", a>> >> : a \in BOOLEAN}
          /\ connected \in {c \in ConnectedStates :
                               \A d \in Devices : c[d] => d = "heartRateMonitor"}
          /\ variant \in Variants
          /\ caps \in SUBSET Caps
          /\ paired \in RecordLists
          /\ FullStorage
          /\ databases = {}
       \/ /\ calls = << >>
          /\ clicks = << <<"onResetHRM", TRUE>> >>
          /\ connected = FirstConnected(0)
          /\ variant = "extended"
          /\ caps = {}
          /\ paired = << >>
          /\ stores \in SUBSET Stores
          /\ localStorage \in {StoreWith(K) : K \in SUBSET KeyPool}
          /\ sessionStorage \in {StoreWith(K) : K \in SUBSET SessionPool}
          /\ databases = {}
       \/ /\ calls = << >>
          /\ clicks = << <<"onResetHRM", TRUE>> >>
          /\ connected = FirstConnected(0)
          /\ variant = "extended"
          /\ caps = {"indexedDB"}
          /\ paired = << >>
          /\ FullStorage
          /\ databases \in SUBSET DbPool
    /\ awaitsEach = FALSE
    /\ start = Snapshot
    /\ NoPip

Targets(r) == MapCalls(devicesToClear(request[r]))

DisconnectErrorSilent(r, d) == {}

\* device-manager.js:45  console.error(`Failed to disconnect: ...`)
DisconnectErrorLog(r, d) == {<<r, "error", "Failed to disconnect", d>>}

\* device-manager.js:56  console.error(`Failed to forget device: ...`)
ForgetErrorLog(r, d) == {<<r, "error", "Failed to forget device", d>>}

\* pip.js:458-468, 480-490: the click handler that awaits run r goes on when
\* the promise of the run settles with oc: its try dispatches a success
\* notification, its catch an error notification.  A run called directly has
\* no handler.
DispatchFor(h, r, oc) ==
    notifications' =
        IF h = "none" THEN notifications
        ELSE Append(notifications, <<r, IF oc = "resolved" THEN "success" ELSE "error">>)

Dispatch(r, oc) == DispatchFor(handler[r], r, oc)

\* ------------------------------------------------- the call, and step 1
\* device-manager.js:22-48, up to  await Promise.all(disconnectPromises).
\* map() runs every async arrow synchronously up to its first await, so
\* isConnected() and disconnect() are called on all targets within the call.
\* `thrown` are the targets whose isConnected() throws; h is the click handler
\* that awaits the call, "none" for a direct call.
Call(r, deviceType, h) ==
    /\ pc[r] = "idle"
    /\ \A q \in RunIds : q < r => pc[q] # "idle"
    /\ LET targets == MapCalls(devicesToClear(deviceType))
       IN
       /\ handler' = [handler EXCEPT ![r] = h]
       /\ request' = [request EXCEPT ![r] = deviceType]
       /\ IF NoTargets(devicesToClear(deviceType))
            THEN /\ log' = log \cup {<<r, "warn", "No managed device instances found", typeName(deviceType)>>}
                 /\ pc' = [pc EXCEPT ![r] = "done"]
                 /\ outcome' = [outcome EXCEPT ![r] = "resolved"]
                 /\ returned' = [returned EXCEPT ![r] = Undefined]
                 /\ DispatchFor(h, r, "resolved")
                 /\ UNCHANGED << deviceVars, taskVars, failed, timers, faults >>
            ELSE \E thrown \in SUBSET targets :
                 /\ Cardinality(thrown) <= MaxThrown
                 /\ faults + Cardinality(thrown) <= MaxFaults
                 /\ faults' = faults + Cardinality(thrown)
                 /\ LET calling == {d \in targets \ thrown : ShouldDisconnect(connected[d])}
                    IN
                    /\ isConnectedCalls' = [isConnectedCalls EXCEPT ![r] =
                           [d \in Devices |-> IF d \in targets THEN @[d] + 1 ELSE @[d]]]
                    /\ sawConnected' = [sawConnected EXCEPT ![r] =
                           {d \in targets \ thrown : connected[d]}]
                    /\ disconnectCalls' = [disconnectCalls EXCEPT ![r] =
                           [d \in Devices |-> IF d \in calling THEN @[d] + 1 ELSE @[d]]]
                    /\ disconnectTasks' = [disconnectTasks EXCEPT ![r] =
                           [d \in Devices |->
                               IF d \notin targets THEN "none"
                               ELSE IF d \in thrown THEN DisconnectTaskAfterThrow
                               ELSE IF d \in calling THEN "awaitDisconnect"
                               ELSE "fulfilled"]]
                    /\ failed' = [failed EXCEPT ![r] = {<<"isConnected", d>> : d \in thrown}]
                    /\ log' = log \cup UNION {DisconnectErrorLog(r, d) : d \in thrown}
                 /\ pc' = [pc EXCEPT ![r] = "step1"]
                 /\ UNCHANGED << connected, forgetCalls, forgetTasks, outcome, returned,
                                 timers, notifications >>
    /\ UNCHANGED << platformVars, paired, loopVars, attempted, sweepFailed, cleanups,
                    histVars, stores, storageVars, dbVars >>

\* A caller other than the two click handlers calls the function.
Recover(r) ==
    /\ calls # << >>
    /\ awaitsEach => \A q \in RunIds : pc[q] \in {"idle", "done"}
    /\ Call(r, Head(calls), "none")
    /\ calls' = Tail(calls)
    /\ UNCHANGED << clicks, answered >>

ShouldRunAlways(answer) == TRUE

\* pip.js:452, 474   if (confirm('...'))
ShouldRun(answer) == answer

\* pip.js:454, 476: onResetHRM passes Device.heartRateMonitor, onResetAll no
\* argument.
HandlerRequest(button) == IF button = "onResetHRM" THEN "heartRateMonitor" ELSE Null

\* pip.js:451-471, 473-493: the user presses a reset button and answers the
\* confirm() dialog; a confirmed press calls clearBluetoothCacheForDevice and
\* awaits it, a declined one ends the handler.
OnReset(r) ==
    /\ clicks # << >>
    /\ clicks' = Tail(clicks)
    /\ answered' = Append(answered, Head(clicks))
    /\ IF ShouldRun(Head(clicks)[2])
         THEN Call(r, HandlerRequest(Head(clicks)[1]), Head(clicks)[1])
         ELSE /\ \A q \in RunIds : pc[q] = "idle" <=> q >= r
              /\ UNCHANGED << handler, request, log, pc, outcome, returned, deviceVars,
                              taskVars, failed, timers, faults, notifications,
                              platformVars, paired, loopVars, attempted, sweepFailed,
                              cleanups, histVars, stores, storageVars, dbVars >>
    /\ UNCHANGED calls

\* device-manager.js:40-42: disconnect() of d resolved; the task goes on to
\* the 500 ms wait.
DisconnectResolved(r, d) ==
    /\ disconnectTasks[r][d] = "awaitDisconnect"
    /\ connected' = [connected EXCEPT ![d] = FALSE]
    /\ disconnectTasks' = [disconnectTasks EXCEPT ![r][d] = DisconnectTaskAfterResolve]
    /\ timers' = IF DisconnectTaskAfterResolve = "awaitTimer"
                   THEN timers \cup {<<r, "settle500", d>>}
                   ELSE timers
    /\ UNCHANGED << histVars, uiVars, notifications, stores, storageVars, dbVars >>
    /\ UNCHANGED << calls, platformVars, paired, pc, request, outcome, returned,
                    forgetTasks, sawConnected, isConnectedCalls, disconnectCalls,
                    forgetCalls, failed, loopVars, attempted, sweepFailed, cleanups,
                    log, faults >>

\* device-manager.js:40, 44-46: disconnect() of d threw; the catch logs it.
DisconnectRejected(r, d) ==
    /\ disconnectTasks[r][d] = "awaitDisconnect"
    /\ faults < MaxFaults
    /\ faults' = faults + 1
    /\ disconnectTasks' = [disconnectTasks EXCEPT ![r][d] = DisconnectTaskAfterThrow]
    /\ failed' = [failed EXCEPT ![r] = @ \cup {<<"disconnect", d>>}]
    /\ log' = log \cup DisconnectErrorLog(r, d)
    /\ UNCHANGED << histVars, uiVars, notifications, stores, storageVars, dbVars >>
    /\ UNCHANGED << calls, platformVars, paired, connected, pc, request, outcome,
                    returned, forgetTasks, sawConnected, isConnectedCalls,
                    disconnectCalls, forgetCalls, loopVars, attempted, sweepFailed,
                    cleanups, timers >>

\* device-manager.js:42: the 500 ms timer of d's task fires; the task ends.
SettleTimerFired(r, d) ==
    /\ <<r, "settle500", d>> \in timers
    /\ disconnectTasks[r][d] = "awaitTimer"
    /\ timers' = timers \ {<<r, "settle500", d>>}
    /\ disconnectTasks' = [disconnectTasks EXCEPT ![r][d] = "fulfilled"]
    /\ waited' = [waited EXCEPT ![r] = @ \cup {d}]
    /\ UNCHANGED << forgotConnected, uiVars, notifications, stores, storageVars, dbVars >>
    /\ UNCHANGED << calls, platformVars, paired, connected, pc, request, outcome,
                    returned, forgetTasks, sawConnected, isConnectedCalls,
                    disconnectCalls, forgetCalls, failed, loopVars, attempted,
                    sweepFailed, cleanups, log, faults >>

\* device-manager.js:48-59: Promise.all(disconnectPromises) settled; step 2
\* calls forgetDevice() on every target, up to await Promise.all(forgetPromises).
\* A rejection of Promise.all leaves the function through its promise.
StartForget(r) ==
    /\ pc[r] = "step1"
    /\ PromiseAll(disconnectTasks[r], Targets(r)) # "pending"
    /\ IF PromiseAll(disconnectTasks[r], Targets(r)) = "rejected"
         THEN /\ pc' = [pc EXCEPT ![r] = "done"]
              /\ outcome' = [outcome EXCEPT ![r] = "rejected"]
              /\ Dispatch(r, "rejected")
              /\ UNCHANGED << forgetCalls, forgetTasks, forgotConnected >>
         ELSE /\ pc' = [pc EXCEPT ![r] = "step2"]
              /\ forgetCalls' = [forgetCalls EXCEPT ![r] =
                     [d \in Devices |-> IF d \in Targets(r) THEN @[d] + 1 ELSE @[d]]]
              /\ forgetTasks' = [forgetTasks EXCEPT ![r] =
                     [d \in Devices |-> IF d \in Targets(r) THEN "awaitForget" ELSE "none"]]
              /\ forgotConnected' = [forgotConnected EXCEPT ![r] =
                     {d \in Targets(r) : connected[d]}]
              /\ UNCHANGED << outcome, notifications >>
    /\ UNCHANGED << waited, uiVars, stores, storageVars, dbVars >>
    /\ UNCHANGED << calls, platformVars, paired, connected, request, returned,
                    disconnectTasks, sawConnected, isConnectedCalls, disconnectCalls,
                    failed, loopVars, attempted, sweepFailed, cleanups, log, timers,
                    faults >>

\* device-manager.js:54: forgetDevice() of d resolved.
ForgetResolved(r, d) ==
    /\ forgetTasks[r][d] = "awaitForget"
    /\ forgetTasks' = [forgetTasks EXCEPT ![r][d] = "fulfilled"]
    /\ UNCHANGED << histVars, uiVars, notifications, stores, storageVars, dbVars >>
    /\ UNCHANGED << calls, platformVars, paired, connected, pc, request, outcome,
                    returned, disconnectTasks, sawConnected, isConnectedCalls,
                    disconnectCalls, forgetCalls, failed, loopVars, attempted,
                    sweepFailed, cleanups, log, timers, faults >>

\* device-manager.js:54-57: forgetDevice() of d threw; the catch logs it.
ForgetRejected(r, d) ==
    /\ forgetTasks[r][d] = "awaitForget"
    /\ faults < MaxFaults
    /\ faults' = faults + 1
    /\ forgetTasks' = [forgetTasks EXCEPT ![r][d] = ForgetTaskAfterThrow]
    /\ failed' = [failed EXCEPT ![r] = @ \cup {<<"forget", d>>}]
    /\ log' = log \cup ForgetErrorLog(r, d)
    /\ UNCHANGED << histVars, uiVars, notifications, stores, storageVars, dbVars >>
    /\ UNCHANGED << calls, platformVars, paired, connected, pc, request, outcome,
                    returned, disconnectTasks, sawConnected, isConnectedCalls,
                    disconnectCalls, forgetCalls, loopVars, attempted, sweepFailed,
                    cleanups, timers >>

\* ------------------------------------------------------- step 3, the sweep
\* Code locations of the sweep, each named after what it probes:
\*   "bluetooth"  line 64           "caches"   part_000:87
\*   "indexedDB"  part_000:94       "storage"  part_000:110
\*   "cleanup"    step 4 (device-manager.js:89, part_000:137)

\* Where control goes after the pairing-record block: part_000 goes on to the
\* caches (line 86), device-manager.js leaves the try (line 87-89).
AfterRecords == IF variant = "extended" THEN "caches" ELSE "cleanup"

\* part_000:133 and device-manager.js:85: the outer catch leaves step 3.
AfterOuterCatch == "cleanup"

NextLoc(loc) ==
    CASE loc = "bluetooth" -> AfterRecords
      [] loc = "caches"    -> "indexedDB"
      [] loc = "indexedDB" -> "storage"
      [] OTHER             -> "cleanup"

\* The locations run without yielding from loc on: a probe whose API is present
\* ends the stretch at its await; the storage purge and step 4 are synchronous
\* and end at the await of step 5.
RECURSIVE Path(_)
Path(loc) ==
    IF loc \in Caps
      THEN IF loc \in caps THEN << loc >> ELSE << loc >> \o Path(NextLoc(loc))
      ELSE IF loc = "storage" THEN << "storage", "cleanup" >> ELSE << "cleanup" >>

\* The await a stretch ends at, by its last location.
AwaitOf(loc) ==
    CASE loc = "bluetooth" -> "getDevices"     \* await navigator.bluetooth.getDevices()
      [] loc = "caches"    -> "cachesKeys"     \* await caches.keys()
      [] loc = "indexedDB" -> "idbDatabases"   \* await indexedDB.databases()
      [] OTHER             -> "settle1000"     \* await new Promise(r => setTimeout(r, 1000))

\* The sub-step an API probe starts.
SubStepOf(loc) ==
    CASE loc = "bluetooth" -> {"getDevices"}
      [] loc = "caches"    -> {"caches"}
      [] loc = "indexedDB" -> {"indexedDB"}
      [] OTHER             -> {}

\* part_000:111-131: both stores are purged inside one try; a throw while
\* purging localStorage skips sessionStorage.
StorageOutcomes == {"ok", "localThrows", "sessionThrows"}

\* part_000:112, 121: there is no probe of the stores; Object.keys(localStorage)
\* or Object.keys(sessionStorage) throws when the store is not there.
StorageChoices ==
    IF "localStorage" \notin stores THEN {"localThrows"}
    ELSE IF "sessionStorage" \notin stores THEN {"localThrows", "sessionThrows"}
    ELSE StorageOutcomes

\* The failures the environment injects for a storage outcome: a throw of a
\* store that is there.
StorageFaults(st) ==
    IF \/ st = "localThrows" /\ "localStorage" \in stores
       \/ st = "sessionThrows" /\ "sessionStorage" \in stores
      THEN 1 ELSE 0
StorageAttempted(st) ==
    CASE st = "localThrows" -> {"localStorage"}
      [] st = "none"        -> {}
      [] OTHER              -> {"localStorage", "sessionStorage"}
StorageFailure(st) ==
    CASE st = "localThrows"   -> {<<"localStorage", 0>>}
      [] st = "sessionThrows" -> {<<"sessionStorage", 0>>}
      [] OTHER                -> {}

\* device-manager.js:93-96: clearTimeout(i) for i in 1..9999 cancels every
\* pending timer of the page (handles are small positive integers).
ClearTimeouts(ts) == {}

TimersSetBeforeCleanup(r, ts) == ClearTimeouts(ts \cup {<<r, "settle1000", "-">>})

\* device-manager.js:91-107: step 4 runs its clearTimeout loop, and only then
\* does step 5 set the 1 s timer the run waits on.
TimersAfterCleanup(r, ts) == ClearTimeouts(ts) \cup {<<r, "settle1000", "-">>}

\* The run goes on from loc to its next await.  flt, sf, lg: the values of
\* faults, sweepFailed[r] and log the resuming event left.
Continue(r, loc, flt, sf, lg) ==
    LET path == Path(loc)
        last == path[Len(path)]
    IN
    \E st \in (IF "storage" \in Range(path) THEN StorageChoices ELSE {"none"}) :
        /\ flt + StorageFaults(st) <= MaxFaults
        /\ faults' = flt + StorageFaults(st)
        /\ localStorage' = IF st \in {"ok", "sessionThrows"}
                              THEN Purged(localStorage) ELSE localStorage
        /\ sessionStorage' = IF st = "ok" THEN Purged(sessionStorage) ELSE sessionStorage
        /\ pc' = [pc EXCEPT ![r] = AwaitOf(last)]
        /\ attempted' = [attempted EXCEPT ![r] = @ \cup SubStepOf(last) \cup StorageAttempted(st)]
        /\ sweepFailed' = [sweepFailed EXCEPT ![r] = sf \cup StorageFailure(st)]
        /\ log' = lg \cup {<<r, "warn", "Could not clear storage", "-">> : x \in StorageFailure(st)}
        /\ IF last = "cleanup"
             THEN /\ timers' = TimersAfterCleanup(r, timers)
                  /\ cleanups' = [cleanups EXCEPT ![r] = @ + 1]
             ELSE UNCHANGED << timers, cleanups >>

\* The first record from i on whose loop body awaits something (Len + 1: none).
RECURSIVE FirstBusy(_, _)
FirstBusy(recs, i) ==
    IF i > Len(recs) THEN Len(recs) + 1
    ELSE IF recs[i].connected \/ recs[i].forget THEN i
    ELSE FirstBusy(recs, i + 1)

AfterRecordFailureBreaks(i, n) == n + 1

\* device-manager.js:80-82: the catch is inside the loop body, so the loop
\* goes on with the next record.
AfterRecordFailure(i, n) == i + 1

\* device-manager.js:68-83: the loop runs from record i to its next await, or
\* to its end and on.
EnterLoop(r, i, flt, sf, lg) ==
    LET n == Len(paired)
        j == FirstBusy(paired, i)
    IN
    /\ processed' = [processed EXCEPT ![r] = @ \cup {k \in i..n : k <= j}]
    /\ IF j <= n
         THEN /\ idx' = [idx EXCEPT ![r] = j]
              /\ IF paired[j].connected
                   THEN /\ pc' = [pc EXCEPT ![r] = "recDisconnect"]
                        /\ platformCalls' = [platformCalls EXCEPT ![r] = @ \cup {<<j, "disconnect">>}]
                   ELSE /\ pc' = [pc EXCEPT ![r] = "recForget"]
                        /\ platformCalls' = [platformCalls EXCEPT ![r] = @ \cup {<<j, "forget">>}]
              /\ faults' = flt
              /\ sweepFailed' = [sweepFailed EXCEPT ![r] = sf]
              /\ log' = lg
              /\ UNCHANGED << attempted, timers, cleanups, storageVars >>
         ELSE /\ idx' = [idx EXCEPT ![r] = n + 1]
              /\ UNCHANGED platformCalls
              /\ Continue(r, AfterRecords, flt, sf, lg)

SweepEntryForAllOnly(deviceType) == IF deviceType = Null THEN "bluetooth" ELSE "cleanup"

\* device-manager.js:61-64: step 3 begins at the getDevices() probe; the
\* deviceType argument is not read again after step 2 (but for the last log).
SweepEntry(deviceType) == "bluetooth"

\* What no sweep action changes.
runFrame == << calls, platformVars, connected, request, disconnectTasks, forgetTasks,
               sawConnected, isConnectedCalls, disconnectCalls, forgetCalls, failed,
               waited, forgotConnected, clicks, answered, handler, stores >>

\* device-manager.js:59-65: Promise.all(forgetPromises) settled; step 3 begins.
StartSweep(r) ==
    /\ pc[r] = "step2"
    /\ PromiseAll(forgetTasks[r], Targets(r)) # "pending"
    /\ IF PromiseAll(forgetTasks[r], Targets(r)) = "rejected"
         THEN /\ pc' = [pc EXCEPT ![r] = "done"]
              /\ outcome' = [outcome EXCEPT ![r] = "rejected"]
              /\ Dispatch(r, "rejected")
              /\ UNCHANGED << attempted, sweepFailed, cleanups, log, timers, faults,
                              storageVars >>
         ELSE /\ Continue(r, SweepEntry(request[r]), faults, sweepFailed[r], log)
              /\ UNCHANGED << outcome, notifications >>
    /\ UNCHANGED << runFrame, dbVars, paired, returned, loopVars >>

\* line 65-68: getDevices() resolved with the pairing records.
GetDevicesResolved(r) ==
    /\ pc[r] = "getDevices"
    /\ EnterLoop(r, 1, faults, sweepFailed[r], log)
    /\ UNCHANGED << runFrame, dbVars, notifications, paired, outcome, returned >>

\* line 65: getDevices() rejected; the outer catch takes it.
GetDevicesRejected(r) ==
    /\ pc[r] = "getDevices"
    /\ faults < MaxFaults
    /\ Continue(r, AfterOuterCatch, faults + 1, sweepFailed[r] \cup {<<"getDevices", 0>>},
                log \cup {<<r, "warn", "Could not access bluetooth.getDevices()", "-">>})
    /\ UNCHANGED << runFrame, dbVars, notifications, paired, outcome, returned, loopVars >>

\* line 72-79: device.gatt.disconnect() of the current record returned.
RecDisconnectResolved(r) ==
    /\ pc[r] = "recDisconnect"
    /\ paired' = [paired EXCEPT ![idx[r]].connected = FALSE]
    /\ IF paired[idx[r]].forget
         THEN /\ pc' = [pc EXCEPT ![r] = "recForget"]
              /\ platformCalls' = [platformCalls EXCEPT ![r] = @ \cup {<<idx[r], "forget">>}]
              /\ UNCHANGED << idx, processed, attempted, sweepFailed, cleanups, log,
                              timers, faults, storageVars >>
         ELSE EnterLoop(r, idx[r] + 1, faults, sweepFailed[r], log)
    /\ UNCHANGED << runFrame, dbVars, notifications, outcome, returned >>

\* line 72, 80-82: device.gatt.disconnect() threw; the record's catch logs it.
RecDisconnectRejected(r) ==
    /\ pc[r] = "recDisconnect"
    /\ faults < MaxFaults
    /\ EnterLoop(r, AfterRecordFailure(idx[r], Len(paired)), faults + 1,
                 sweepFailed[r] \cup {<<"recDisconnect", idx[r]>>},
                 log \cup {<<r, "error", "Failed to clear cached device", "-">>})
    /\ UNCHANGED << runFrame, dbVars, notifications, paired, outcome, returned >>

\* line 78: device.forget() of the current record resolved.
RecForgetResolved(r) ==
    /\ pc[r] = "recForget"
    /\ EnterLoop(r, idx[r] + 1, faults, sweepFailed[r], log)
    /\ UNCHANGED << runFrame, dbVars, notifications, paired, outcome, returned >>

\* line 78, 80-82: device.forget() rejected; the record's catch logs it.
RecForgetRejected(r) ==
    /\ pc[r] = "recForget"
    /\ faults < MaxFaults
    /\ EnterLoop(r, AfterRecordFailure(idx[r], Len(paired)), faults + 1,
                 sweepFailed[r] \cup {<<"recForget", idx[r]>>},
                 log \cup {<<r, "error", "Failed to clear cached device", "-">>})
    /\ UNCHANGED << runFrame, dbVars, notifications, paired, outcome, returned >>

\* part_000:88-90: caches.keys() resolved; caches.delete() is called on every
\* name and the run awaits Promise.all of them.
CachesKeysResolved(r) ==
    /\ pc[r] = "cachesKeys"
    /\ pc' = [pc EXCEPT ![r] = "cachesDelete"]
    /\ UNCHANGED << runFrame, dbVars, notifications, storageVars, paired, outcome, returned, loopVars, attempted,
                    sweepFailed, cleanups, log, timers, faults >>

\* part_000:88, 133: caches.keys() rejected; the outer catch takes it.
CachesKeysRejected(r) ==
    /\ pc[r] = "cachesKeys"
    /\ faults < MaxFaults
    /\ Continue(r, AfterOuterCatch, faults + 1, sweepFailed[r] \cup {<<"caches", 0>>},
                log \cup {<<r, "warn", "Could not access bluetooth.getDevices()", "-">>})
    /\ UNCHANGED << runFrame, dbVars, notifications, paired, outcome, returned, loopVars >>

\* part_000:90-94: every caches.delete() resolved.
CachesDeleteResolved(r) ==
    /\ pc[r] = "cachesDelete"
    /\ Continue(r, "indexedDB", faults, sweepFailed[r], log)
    /\ UNCHANGED << runFrame, dbVars, notifications, paired, outcome, returned, loopVars >>

\* part_000:90, 133: a caches.delete() rejected; the outer catch takes it.
CachesDeleteRejected(r) ==
    /\ pc[r] = "cachesDelete"
    /\ faults < MaxFaults
    /\ Continue(r, AfterOuterCatch, faults + 1, sweepFailed[r] \cup {<<"caches", 0>>},
                log \cup {<<r, "warn", "Could not access bluetooth.getDevices()", "-">>})
    /\ UNCHANGED << runFrame, dbVars, notifications, paired, outcome, returned, loopVars >>

\* part_000:97-110: indexedDB.databases() resolved; the deletions are requested
\* without being awaited and the run goes on to the storage purge.
IdbDatabasesResolved(r) ==
    /\ pc[r] = "idbDatabases"
    /\ dbDeleting' = dbDeleting \cup {<<r, name>> : name \in {n \in databases : IsBleDatabase(n)}}
    /\ Continue(r, "storage", faults, sweepFailed[r], log)
    /\ UNCHANGED << runFrame, databases, notifications, paired, outcome, returned, loopVars >>

\* part_000:97, 105-107: indexedDB.databases() rejected; its own catch logs it.
IdbDatabasesRejected(r) ==
    /\ pc[r] = "idbDatabases"
    /\ faults < MaxFaults
    /\ Continue(r, "storage", faults + 1, sweepFailed[r] \cup {<<"indexedDB", 0>>},
                log \cup {<<r, "warn", "Could not access IndexedDB databases", "-">>})
    /\ UNCHANGED << runFrame, dbVars, notifications, paired, outcome, returned, loopVars >>

\* part_000:102: a deletion run r requested with indexedDB.deleteDatabase(name)
\* settles, whatever the run is doing by then; it deleted the database or not.
DeleteDatabaseSettled(r, name) ==
    /\ <<r, name>> \in dbDeleting
    /\ dbDeleting' = dbDeleting \ {<<r, name>>}
    /\ \E ok \in BOOLEAN : databases' = IF ok THEN databases \ {name} ELSE databases
    /\ UNCHANGED << runFrame, storageVars, notifications, paired, outcome, returned,
                    loopVars, pc, attempted, sweepFailed, cleanups, log, timers, faults >>

\* device-manager.js:107-110: the 1 s timer fires; the function returns.
FinalTimerFired(r) ==
    /\ pc[r] = "settle1000"
    /\ <<r, "settle1000", "-">> \in timers
    /\ timers' = timers \ {<<r, "settle1000", "-">>}
    /\ pc' = [pc EXCEPT ![r] = "done"]
    /\ outcome' = [outcome EXCEPT ![r] = "resolved"]
    /\ returned' = [returned EXCEPT ![r] = Undefined]
    /\ Dispatch(r, "resolved")
    /\ UNCHANGED << runFrame, dbVars, storageVars, paired, loopVars, attempted, sweepFailed, cleanups,
                    log, faults >>

Next ==
    \/ \E r \in RunIds : Recover(r)
    \/ \E r \in RunIds : OnReset(r)
    \/ \E r \in RunIds, d \in Devices : DisconnectResolved(r, d)
    \/ \E r \in RunIds, d \in Devices : DisconnectRejected(r, d)
    \/ \E r \in RunIds, d \in Devices : SettleTimerFired(r, d)
    \/ \E r \in RunIds : StartForget(r)
    \/ \E r \in RunIds, d \in Devices : ForgetResolved(r, d)
    \/ \E r \in RunIds, d \in Devices : ForgetRejected(r, d)
    \/ \E r \in RunIds : StartSweep(r)
    \/ \E r \in RunIds : GetDevicesResolved(r)
    \/ \E r \in RunIds : GetDevicesRejected(r)
    \/ \E r \in RunIds : RecDisconnectResolved(r)
    \/ \E r \in RunIds : RecDisconnectRejected(r)
    \/ \E r \in RunIds : RecForgetResolved(r)
    \/ \E r \in RunIds : RecForgetRejected(r)
    \/ \E r \in RunIds : CachesKeysResolved(r)
    \/ \E r \in RunIds : CachesKeysRejected(r)
    \/ \E r \in RunIds : CachesDeleteResolved(r)
    \/ \E r \in RunIds : CachesDeleteRejected(r)
    \/ \E r \in RunIds : IdbDatabasesResolved(r)
    \/ \E r \in RunIds : IdbDatabasesRejected(r)
    \/ \E r \in RunIds, name \in DbPool : DeleteDatabaseSettled(r, name)
    \/ \E r \in RunIds : FinalTimerFired(r)

Spec == Init /\ [][Next]_vars

\* Every call a run awaits settles in the end, every pending timer fires, and
\* the event loop resumes what is ready: while some step can be taken, one is.
Fairness == WF_vars(Next)

\* One call on an event loop that keeps going:
\*  - a direct request for the heart rate monitor or for an unregistered
\*    role, on the full platform;
\*  - a confirmed press of "reset all" with the first k devices connected,
\*    on the full platform;
\*  - a confirmed press of "reset HRM" in either build, on a platform with
\*    getDevices() alone and any pairing records;
\*  - the same press on a platform with IndexedDB alone and any databases.
InitLive ==
    /\ InitRun
    /\ FullStorage
    /\ \/ /\ calls \in {<< "heartRateMonitor" >>, << UnknownRole >>}
          /\ clicks = << >>
          /\ connected \in {FirstConnected(0), [FirstConnected(0) EXCEPT !["heartRateMonitor"] = TRUE]}
          /\ FullPlatform
          /\ databases = {}
       \/ /\ calls = << >>
          /\ clicks = << <<"onResetAll", TRUE>> >>
          /\ connected \in {FirstConnected(k) : k \in 0..MaxConnected}
          /\ FullPlatform
          /\ databases = {}
       \/ /\ calls = << >>
          /\ clicks = << <<"onResetHRM", TRUE>> >>
          /\ connected = FirstConnected(0)
          /\ variant \in Variants
          /\ caps = {"bluetooth"}
          /\ paired \in RecordLists
          /\ databases = {}
       \/ /\ calls = << >>
          /\ clicks = << <<"onResetHRM", TRUE>> >>
          /\ connected = FirstConnected(0)
          /\ variant = "extended"
          /\ caps = {"indexedDB"}
          /\ paired = << >>
          /\ databases \in SUBSET DbPool
    /\ awaitsEach = FALSE
    /\ start = Snapshot
    /\ NoPip

FairSpec == InitLive /\ [][Next]_vars /\ Fairness

\* Two calls that may overlap, on the platform with every optional API: two
\* confirmed presses of "reset HRM", the heart rate monitor connected or not;
\* or two direct calls for different roles, no device connected, with a
\* database to delete.
InitOverlap ==
    /\ InitRun
    /\ \/ /\ calls = << >>
          /\ clicks = << <<"onResetHRM", TRUE>>, <<"onResetHRM", TRUE>> >>
          /\ connected \in {c \in ConnectedStates :
                               \A d \in Devices : c[d] => d = "heartRateMonitor"}
          /\ databases = {}
       \/ /\ calls = << "heartRateMonitor", "powerMeter" >>
          /\ clicks = << >>
          /\ connected = FirstConnected(0)
          /\ databases = {<< "b", "l", "e", "-", "d", "b" >>}
    /\ FullPlatform
    /\ FullStorage
    /\ awaitsEach = FALSE
    /\ start = Snapshot
    /\ NoPip

OverlapSpec == InitOverlap /\ [][Next]_vars

\* The pairing records of RoleSpec: no record, every single record, and two
\* lists of two.
RoleRecordLists ==
    {<< >>} \cup {<<rec>> : rec \in Records}
       \cup { << [connected |-> TRUE, forget |-> TRUE], [connected |-> FALSE, forget |-> TRUE] >>,
              << [connected |-> TRUE, forget |-> FALSE], [connected |-> TRUE, forget |-> TRUE] >> }

\* One call for each request in turn, on the same platforms: a direct call for
\* each of the six roles, the heart rate monitor connected or not, or a
\* confirmed press of "reset all"; in either build with every optional API
\* or in the longer one with none, with the pairing records above, a
\* database to delete and one to keep.
InitRoles ==
    /\ InitRun
    /\ \/ /\ calls \in {<<t>> : t \in Devices}
          /\ clicks = << >>
          /\ connected \in {c \in ConnectedStates :
                               \A d \in Devices : c[d] => d = "heartRateMonitor"}
       \/ /\ calls = << >>
          /\ clicks = << <<"onResetAll", TRUE>> >>
          /\ connected = FirstConnected(0)
    /\ \/ variant \in Variants /\ caps = Caps
       \/ variant = "extended" /\ caps = {}
    /\ paired \in RoleRecordLists
    /\ FullStorage
    /\ databases = {<< "b", "l", "e", "-", "d", "b" >>, << "a", "p", "p" >>}
    /\ awaitsEach = FALSE
    /\ start = Snapshot
    /\ NoPip

RoleSpec == InitRoles /\ [][Next]_vars

\* A caller that runs the same request twice, the second call after the first
\* has returned (await clear(t); await clear(t)): for the heart rate monitor
\* on the full platform, with the first k devices of the registry connected
\* and the user free to press "reset all" and decline; or for all devices in
\* the shorter build on a platform with no pairing API, the first device
\* connected.
InitSecondRun ==
    /\ InitRun
    /\ awaitsEach = TRUE
    /\ \/ /\ calls = << "heartRateMonitor", "heartRateMonitor" >>
          /\ clicks \in {<< >>, << <<"onResetAll", FALSE>> >>}
          /\ connected \in {FirstConnected(k) : k \in 0..MaxConnected}
          /\ FullPlatform
       \/ /\ calls = << Null, Null >>
          /\ clicks = << >>
          /\ connected = FirstConnected(1)
          /\ variant = "basic"
          /\ caps = {}
          /\ paired = << >>
    /\ FullStorage
    /\ databases = {<< "b", "l", "e", "-", "d", "b" >>}
    /\ start = Snapshot
    /\ NoPip

SecondRunSpec == InitSecondRun /\ [][Next]_vars

FairOverlapSpec == OverlapSpec /\ Fairness

\* ------------------------------------------- the picture-in-picture overlay
\* The browser shows at most one PIP window.  A window opened through
\* documentPictureInPicture.requestWindow() reports its closing with a
\* pagehide event on the window; a video in PIP reports entering and leaving
\* with enterpictureinpicture / leavepictureinpicture events that bubble to
\* the document, and is document.pictureInPictureElement while it is shown.
\* Events are handled in the order the browser queued them.

\* Everything of the recovery routine but the timers and the notifications.
runVars == << calls, variant, caps, awaitsEach, start, paired, connected, pc, request,
              outcome, returned, disconnectTasks, forgetTasks, sawConnected,
              isConnectedCalls, disconnectCalls, forgetCalls, failed, idx, processed,
              platformCalls, attempted, sweepFailed, cleanups, log, faults, waited,
              forgotConnected, clicks, answered, handler, stores, localStorage,
              sessionStorage, databases, dbDeleting >>

\* The rest of the page, which no step of the overlay changes: the APIs of
\* the browser, isSupported (set once, pip.js:10), and the configuration.
pageVars == << pipApis, isSupported, configVars >>
domVars == << pipVideos, setupPc >>
managerVars == << isPIPActive, pipWindow, pipDocument, exiting >>
callVars == << callPc, callResult, callVia >>
controlVars == << controlIsActive, controlHeard >>

\* pip.js:74: enterPIP() takes the Document PIP path whenever the browser has
\* it, and the video path otherwise; so does every window the manager opens.
hasDocumentPIP == "documentPictureInPicture" \in pipApis
hasVideoPIP == "requestPictureInPicture" \in pipApis

\* document.pictureInPictureElement (pip.js:167) is the video in PIP, and null
\* while a Document PIP window is shown.
pictureInPictureElement == IF pipOpen # 0 /\ ~hasDocumentPIP THEN pipOpen ELSE NullRef

\* pip.js:135-137: the handle of the 5 s timer of enter call k.
VideoTimeout(k) == <<0 - k, "videoLoad5000", "-">>

SubscribedForever(attached) == TRUE

\* pip.js:515-516, 522-523, 527, 556: the click listener and the two pip
\* subscriptions are made with the signal of the AbortController that
\* disconnectedCallback aborts: they are there while the control is attached.
Subscribed(attached) == attached

\* xf.dispatch('pip:entered' | 'pip:exited') (pip.js:119, 158, 352, 367) and
\* the two subscribers of PIPControl (pip.js:575-583).
XfDispatch(event) ==
    /\ lastDispatch' = event
    /\ IF Subscribed(controlAttached)
         THEN /\ controlIsActive' = (event = "pip:entered")
              /\ controlHeard' = TRUE
         ELSE UNCHANGED controlVars

\* pip.js:563-568, 594-601: the promise of toggle() / enterPIP() settles with
\* res; onTogglePIP, which awaited it for a click, shows an error on false.
Settle(k, via, res) ==
    /\ callPc' = [callPc EXCEPT ![k] = "done"]
    /\ callResult' = [callResult EXCEPT ![k] = res]
    /\ notifications' = IF via = "click" /\ res = "false"
                          THEN Append(notifications, <<0, "error">>)
                          ELSE notifications

\* pip.js:167   if (this.isPIPActive && document.pictureInPictureElement)
ExitPIPCalls(active, element) == active /\ element # NullRef

onLeavePIPKeepsDocument == [isPIPActive |-> FALSE, pipWindow |-> NullRef, pipDocument |-> pipDocument]

\* pip.js:355-358: the fields onLeavePIP sets.
onLeavePIPFields == [isPIPActive |-> FALSE, pipWindow |-> NullRef, pipDocument |-> NullRef]

\* pip.js:64-91, 93-98, 127-151: enterPIP() up to its first await.
enterPIP(k, via) ==
    IF ~isSupported
      THEN Settle(k, via, "false") /\ UNCHANGED << timers, pipVideos >>
    ELSE IF hasDocumentPIP
      THEN /\ callPc' = [callPc EXCEPT ![k] = "requestWindow"]
           /\ UNCHANGED << callResult, notifications, timers, pipVideos >>
    ELSE IF hasVideoPIP
      THEN /\ callPc' = [callPc EXCEPT ![k] = "awaitReady"]
           /\ pipVideos' = Append(pipVideos, k)
           /\ timers' = timers \cup {VideoTimeout(k)}
           /\ UNCHANGED << callResult, notifications >>
    ELSE Settle(k, via, "false") /\ UNCHANGED << timers, pipVideos >>

\* pip.js:370-387, 166-170: toggle() up to its return or first await.
toggle(k, via) ==
    IF ~isSupported
      THEN /\ Settle(k, via, "false")
           /\ UNCHANGED << timers, pipVideos, exiting, exitRequested >>
    ELSE IF isPIPActive
      THEN /\ exitRequested' = (exitRequested \/ ExitPIPCalls(isPIPActive, pictureInPictureElement))
           /\ exiting' = TRUE
           /\ Settle(k, via, "true")
           /\ UNCHANGED << timers, pipVideos >>
    ELSE /\ enterPIP(k, via)
         /\ UNCHANGED << exiting, exitRequested >>

\* The next call of the manager takes the first unused id.
NextCall(k) == callPc[k] = "idle" /\ \A j \in CallIds : j < k => callPc[j] # "idle"

\* pip.js:559-573: a click on the attached control runs onTogglePIP, which
\* calls pipManager.toggle(); the control of a page without PIP listens to no
\* click (line 553).
OnTogglePIP(k) ==
    /\ NextCall(k)
    /\ Subscribed(controlAttached)
    /\ isSupported
    /\ callVia' = [callVia EXCEPT ![k] = "click"]
    /\ toggle(k, "click")
    /\ UNCHANGED << runVars, pageVars, setupPc, isPIPActive, pipWindow, pipDocument, pipOpen,
                    pipTasks, controlAttached, controlVars, lastDispatch >>

\* pip.js:370: another caller calls pipManager.toggle().
ToggleCalled(k) ==
    /\ NextCall(k)
    /\ callVia' = [callVia EXCEPT ![k] = "call"]
    /\ toggle(k, "call")
    /\ UNCHANGED << runVars, pageVars, setupPc, isPIPActive, pipWindow, pipDocument, pipOpen,
                    pipTasks, controlAttached, controlVars, lastDispatch >>

\* pip.js:64: another caller calls pipManager.enterPIP().
EnterPIPCalled(k) ==
    /\ NextCall(k)
    /\ callVia' = [callVia EXCEPT ![k] = "call"]
    /\ enterPIP(k, "call")
    /\ UNCHANGED << runVars, pageVars, setupPc, managerVars, pipOpen, exitRequested, pipTasks,
                    controlAttached, controlVars, lastDispatch >>

\* pip.js:116: the windows enterDocumentPIP opened are the ones whose
\* pagehide the manager listens to.
Listened(w) == w \in CallIds

\* pip.js:95-120: requestWindow() resolved with the window of call k.  The
\* browser closes the window it showed before; the pagehide of that window is
\* handled before this continuation (early) or queued behind it.
RequestWindowResolved(k) ==
    /\ callPc[k] = "requestWindow"
    /\ pipOpen' = k
    /\ \E early \in BOOLEAN :
          /\ pipTasks' = IF Listened(pipOpen) /\ ~early
                           THEN Append(pipTasks, <<"pagehide", pipOpen>>)
                           ELSE pipTasks
          /\ exiting' = IF Listened(pipOpen) /\ early THEN FALSE ELSE exiting
    /\ pipWindow' = k
    /\ pipDocument' = k
    /\ isPIPActive' = TRUE
    /\ XfDispatch("pip:entered")
    /\ Settle(k, callVia[k], "true")
    /\ UNCHANGED << runVars, pageVars, domVars, callVia, exitRequested, controlAttached, timers >>

\* pip.js:95, 121-124: requestWindow() rejected.
RequestWindowRejected(k) ==
    /\ callPc[k] = "requestWindow"
    /\ Settle(k, callVia[k], "false")
    /\ UNCHANGED << runVars, pageVars, domVars, managerVars, callVia, pipOpen, exitRequested, pipTasks,
                    controlAttached, controlVars, lastDispatch, timers >>

\* pip.js:139-144, 153-154: loadedmetadata or canplay fires on the video of
\* call k; onReady clears the timer and the call goes on to
\* video.requestPictureInPicture().
VideoReady(k) ==
    /\ callPc[k] = "awaitReady"
    /\ timers' = timers \ {VideoTimeout(k)}
    /\ callPc' = [callPc EXCEPT ![k] = "requestPiP"]
    /\ UNCHANGED << runVars, pageVars, domVars, managerVars, callResult, callVia, pipOpen,
                    exitRequested, pipTasks, controlAttached, controlVars, lastDispatch,
                    notifications >>

\* pip.js:135-137, 160-163: the 5 s timer of call k fires; the wait rejects
\* and the catch returns false.
VideoTimedOut(k) ==
    /\ callPc[k] = "awaitReady"
    /\ VideoTimeout(k) \in timers
    /\ timers' = timers \ {VideoTimeout(k)}
    /\ Settle(k, callVia[k], "false")
    /\ UNCHANGED << runVars, pageVars, domVars, managerVars, callVia, pipOpen, exitRequested, pipTasks,
                    controlAttached, controlVars, lastDispatch >>

\* pip.js:154-159: requestPictureInPicture() resolved: the video of call k is
\* in PIP.  The browser queues the leave of the video it showed before and
\* the enter of this one, and the call goes on before either is handled.
RequestPiPResolved(k) ==
    /\ callPc[k] = "requestPiP"
    /\ pipOpen' = k
    /\ pipTasks' = (IF pipOpen # 0
                      THEN Append(pipTasks, <<"leavepictureinpicture", pipOpen>>)
                      ELSE pipTasks) \o << <<"enterpictureinpicture", k>> >>
    /\ pipWindow' = k
    /\ isPIPActive' = TRUE
    /\ XfDispatch("pip:entered")
    /\ Settle(k, callVia[k], "true")
    /\ UNCHANGED << runVars, pageVars, domVars, pipDocument, callVia, exiting, exitRequested,
                    controlAttached, timers >>

\* pip.js:154, 160-163: requestPictureInPicture() rejected.
RequestPiPRejected(k) ==
    /\ callPc[k] = "requestPiP"
    /\ Settle(k, callVia[k], "false")
    /\ UNCHANGED << runVars, pageVars, domVars, managerVars, callVia, pipOpen, exitRequested, pipTasks,
                    controlAttached, controlVars, lastDispatch, timers >>

\* pip.js:168: the browser carries out document.exitPictureInPicture(): the
\* video leaves PIP, if one is still there.
ExitPictureInPictureDone ==
    /\ exitRequested
    /\ exitRequested' = FALSE
    /\ IF pictureInPictureElement # NullRef
         THEN /\ pipOpen' = 0
              /\ pipTasks' = Append(pipTasks, <<"leavepictureinpicture", pipOpen>>)
         ELSE UNCHANGED << pipOpen, pipTasks >>
    /\ UNCHANGED << runVars, pageVars, domVars, managerVars, callVars, controlAttached, controlVars,
                    lastDispatch, timers, notifications >>

\* The user closes the PIP window.
UserClosesPIP ==
    /\ pipOpen # 0
    /\ pipOpen' = 0
    /\ pipTasks' = IF ~hasDocumentPIP
                      THEN Append(pipTasks, <<"leavepictureinpicture", pipOpen>>)
                    ELSE IF Listened(pipOpen)
                      THEN Append(pipTasks, <<"pagehide", pipOpen>>)
                    ELSE pipTasks
    /\ UNCHANGED << runVars, pageVars, domVars, managerVars, callVars, exitRequested, controlAttached,
                    controlVars, lastDispatch, timers, notifications >>

\* pip.js:349-353: onEnterPIP, the listener of enterpictureinpicture (line 60).
onEnterPIP ==
    /\ isPIPActive' = TRUE
    /\ XfDispatch("pip:entered")
    /\ UNCHANGED << pipWindow, pipDocument, exiting >>

\* pip.js:355-368: onLeavePIP, the listener of leavepictureinpicture (line 61)
\* and of the pagehide of every window the manager opened (line 116).  Lines
\* 361-364 take the first #pip-video out of the document; if that video is
\* the one in PIP, the browser may close its PIP window (closes).
onLeavePIP(closes) ==
    /\ isPIPActive' = onLeavePIPFields.isPIPActive
    /\ pipWindow' = onLeavePIPFields.pipWindow
    /\ pipDocument' = onLeavePIPFields.pipDocument
    /\ exiting' = FALSE
    /\ pipVideos' = IF pipVideos = << >> THEN << >> ELSE Tail(pipVideos)
    /\ IF closes /\ pipVideos # << >> /\ Head(pipVideos) = pictureInPictureElement
         THEN /\ pipOpen' = 0
              /\ pipTasks' = Append(Tail(pipTasks), <<"leavepictureinpicture", pipOpen>>)
         ELSE /\ pipOpen' = pipOpen
              /\ pipTasks' = Tail(pipTasks)
    /\ XfDispatch("pip:exited")

\* The page handles the next event the browser queued.
HandlePipEvent ==
    /\ pipTasks # << >>
    /\ IF Head(pipTasks)[1] = "enterpictureinpicture"
         THEN /\ onEnterPIP
              /\ pipTasks' = Tail(pipTasks)
              /\ UNCHANGED << pipOpen, pipVideos >>
         ELSE \E closes \in BOOLEAN : onLeavePIP(closes)
    /\ UNCHANGED << runVars, pageVars, setupPc, callVars, exitRequested, controlAttached,
                    timers, notifications >>

\* pip.js:514-524: <pip-control> is put in the document.
ConnectedCallback ==
    /\ ~controlAttached
    /\ controlAttached' = TRUE
    /\ controlHeard' = FALSE
    /\ UNCHANGED << runVars, pageVars, domVars, managerVars, callVars, pipOpen, exitRequested, pipTasks,
                    controlIsActive, lastDispatch, timers, notifications >>

\* pip.js:526-528: <pip-control> is taken out; abort() removes its listeners.
DisconnectedCallback ==
    /\ controlAttached
    /\ controlAttached' = FALSE
    /\ UNCHANGED << runVars, pageVars, domVars, managerVars, callVars, pipOpen, exitRequested, pipTasks,
                    controlVars, lastDispatch, timers, notifications >>

\* What the user and the other callers do, and the load of a video, which may
\* never come.
\* pip.js:232-246: setupPIPContent(), which no code of pip.js calls, up to
\* the await of setupDocumentPIP.
SetupPIPContentCalled ==
    /\ setupPc = "idle"
    /\ setupPc' = IF pipWindow # NullRef /\ hasDocumentPIP THEN "requestWindow" ELSE "done"
    /\ UNCHANGED << runVars, pageVars, pipVideos, managerVars, callVars, pipOpen, exitRequested,
                    pipTasks, controlAttached, controlVars, lastDispatch, timers,
                    notifications >>

\* pip.js:243-259: requestWindow() of setupDocumentPIP resolved: its window
\* replaces the one shown before, whose pagehide is handled before this
\* continuation (early) or queued behind it; the window is stored in
\* pipDocument, and no listener is put on it.
SetupWindowResolved ==
    /\ setupPc = "requestWindow"
    /\ setupPc' = "done"
    /\ pipOpen' = SetupWindow
    /\ pipDocument' = SetupWindow
    /\ \E early \in BOOLEAN :
          IF Listened(pipOpen) /\ early
            THEN /\ isPIPActive' = onLeavePIPFields.isPIPActive
                 /\ pipWindow' = onLeavePIPFields.pipWindow
                 /\ exiting' = FALSE
                 /\ XfDispatch("pip:exited")
                 /\ UNCHANGED pipTasks
            ELSE /\ pipTasks' = IF Listened(pipOpen)
                                  THEN Append(pipTasks, <<"pagehide", pipOpen>>)
                                  ELSE pipTasks
                 /\ UNCHANGED << isPIPActive, pipWindow, exiting, controlVars, lastDispatch >>
    /\ UNCHANGED << runVars, pageVars, pipVideos, callVars, exitRequested, controlAttached,
                    timers, notifications >>

\* pip.js:243, 261-263: requestWindow() of setupDocumentPIP rejected.
SetupWindowRejected ==
    /\ setupPc = "requestWindow"
    /\ setupPc' = "done"
    /\ UNCHANGED << runVars, pageVars, pipVideos, managerVars, callVars, pipOpen, exitRequested,
                    pipTasks, controlAttached, controlVars, lastDispatch, timers,
                    notifications >>

PipUserNext ==
    \/ \E k \in CallIds : OnTogglePIP(k)
    \/ \E k \in CallIds : ToggleCalled(k)
    \/ \E k \in CallIds : EnterPIPCalled(k)
    \/ \E k \in CallIds : VideoReady(k)
    \/ SetupPIPContentCalled
    \/ UserClosesPIP
    \/ ConnectedCallback
    \/ DisconnectedCallback

\* What the browser does once it is asked.
PipBrowserNext ==
    \/ \E k \in CallIds : RequestWindowResolved(k)
    \/ \E k \in CallIds : RequestWindowRejected(k)
    \/ \E k \in CallIds : VideoTimedOut(k)
    \/ \E k \in CallIds : RequestPiPResolved(k)
    \/ \E k \in CallIds : RequestPiPRejected(k)
    \/ ExitPictureInPictureDone
    \/ HandlePipEvent
    \/ SetupWindowResolved
    \/ SetupWindowRejected

PipNext == PipUserNext \/ PipBrowserNext

\* The recovery routine idle, on the full platform.
NoRecovery ==
    /\ InitRun
    /\ calls = << >>
    /\ clicks = << >>
    /\ connected = FirstConnected(0)
    /\ FullPlatform
    /\ FullStorage
    /\ databases = {}
    /\ awaitsEach = FALSE
    /\ start = Snapshot

\* The overlay alone, in a browser with any of the PIP APIs, the control in
\* the document or not.
InitPip ==
    /\ NoRecovery
    /\ \E apis \in SUBSET PipApis, attached \in BOOLEAN : PipPage(apis, attached)

PipSpec == InitPip /\ [][PipNext]_vars

\* The browser settles what it was asked and the page handles every queued
\* event; the user need not act and a video need not load.
PipFairness == WF_vars(PipBrowserNext)

PipFairSpec == PipSpec /\ PipFairness

\* ------------------------------------------------- application configuration
\* The ids a caller may pass: a property left out or undefined, null, or a
\* number; setServices() without an argument takes {} (config.js:22).
ArgValues == {JsUndefined, JsNull} \cup {JsNumber(n) : n \in 0..MaxClientId}
ServiceArgs == [Services -> ArgValues]

\* config.js:22-26
setServices(args) ==
    /\ env' = [s \in Services |-> Coalesce(args[s], defaultClientId(s))]
    /\ lastArgs' = args
    /\ UNCHANGED << runVars, pipVars, timers, notifications >>

ConfigNext == \E args \in ServiceArgs : setServices(args)

\* The configuration alone: constructed, then any calls of setServices.
InitConfig == NoRecovery /\ NoPip

ConfigSpec == InitConfig /\ [][ConfigNext]_vars

\* The overlay and the recovery routine on one page (pip.js holds the
\* manager, the control and the reset buttons):
\*  - a confirmed press of "reset HRM" with the monitor connected, on the
\*    full platform with one database to delete, in a browser without PIP;
\*  - a direct request for the monitor, not connected, on a platform with none of
\*    the probed APIs, in a browser with the video PIP API, alone or with the
\*    Document PIP API.
InitPage ==
    /\ InitRun
    /\ \/ /\ calls = << >>
          /\ clicks = << <<"onResetHRM", TRUE>> >>
          /\ connected = [d \in Devices |-> d = "heartRateMonitor"]
          /\ FullPlatform
          /\ FullStorage
          /\ databases = {<< "b", "l", "e", "-", "d", "b" >>}
          /\ PipPage({}, FALSE)
       \/ /\ calls = << "heartRateMonitor" >>
          /\ clicks = << >>
          /\ connected = FirstConnected(0)
          /\ variant = "basic"
          /\ caps = {}
          /\ paired = << >>
          /\ FullStorage
          /\ databases = {}
          /\ \E apis \in {a \in SUBSET PipApis : "requestPictureInPicture" \in a} :
                PipPage(apis, TRUE)
    /\ awaitsEach = FALSE
    /\ start = Snapshot

PageNext == Next \/ PipNext

PageSpec == InitPage /\ [][PageNext]_vars

\* ------------------------------------------------------------------ claims
\* The devices a request names, by the roles alone.
RoleTargets(r) ==
    IF request[r] = Null THEN Devices
    ELSE {d \in Devices : getDeviceType(d) = request[r]}

NoMatch(r) == request[r] # Null /\ \A d \in Devices : getDeviceType(d) # request[r]

Touched(r, d) ==
    isConnectedCalls[r][d] + disconnectCalls[r][d] + forgetCalls[r][d] > 0

DisconnectThrew(r, d) ==
    <<"disconnect", d>> \in failed[r] \/ <<"isConnected", d>> \in failed[r]

\* The run has left step 1.
PastStep1(r) == pc[r] \notin {"idle", "step1"}

\* The run has left the loop over the pairing records.
PastLoop(r) == pc[r] \in {"cachesKeys", "cachesDelete", "idbDatabases", "settle1000", "done"}

\* C1: once a run has called forgetDevice() on any target, no disconnect()
\* call of that run is still unsettled, whatever the order the disconnects
\* settled in.
C1_ForgetAfterDisconnectsSettled ==
    \A r \in RunIds :
        (\E d \in Devices : forgetCalls[r][d] > 0)
            => \A e \in Devices : disconnectTasks[r][e] # "awaitDisconnect"

\* C1 witness: forget has been called in a run that disconnected two targets,
\* one of which failed.
C1_Witness ==
    \E r \in RunIds :
        /\ \E d \in Devices : forgetCalls[r][d] > 0
        /\ Cardinality({d \in Devices : disconnectCalls[r][d] = 1}) >= 2
        /\ \E d \in Devices : <<"disconnect", d>> \in failed[r]

\* C2: when disconnect() or isConnected() threw for a target, disconnect() was
\* still called on every target seen connected, and once step 1 is over
\* forgetDevice() has been called on every target, the failed one included.
C2_DisconnectFailureIsolated ==
    \A r \in RunIds :
        (\E d \in Devices : DisconnectThrew(r, d))
            => /\ \A e \in sawConnected[r] : disconnectCalls[r][e] = 1
               /\ PastStep1(r) => \A e \in RoleTargets(r) : forgetCalls[r][e] = 1

\* C2 witness: a target whose disconnect() threw has had forgetDevice() called,
\* and another target was disconnected in the same run.
C2_Witness ==
    \E r \in RunIds, d, e \in Devices :
        /\ d # e
        /\ <<"disconnect", d>> \in failed[r]
        /\ forgetCalls[r][d] = 1
        /\ disconnectCalls[r][e] = 1
        /\ <<"disconnect", e>> \notin failed[r]

\* C3: a run for a registered role calls only the device of that role, and
\* calls it; a run with no role calls all six registered devices.
C3_ExactlyTheRole ==
    /\ Cardinality(Devices) = 6
    /\ \A r \in RunIds : pc[r] # "idle" =>
        /\ \A d \in Devices : Touched(r, d) => d \in RoleTargets(r)
        /\ \A d \in RoleTargets(r) :
              /\ isConnectedCalls[r][d] = 1
              /\ d \in sawConnected[r] => disconnectCalls[r][d] = 1
              /\ PastStep1(r) => forgetCalls[r][d] = 1

\* C3 witness: a finished run for the heart rate monitor, which it disconnected
\* and forgot, while the power meter was connected.
C3_Witness ==
    \E r \in RunIds :
        /\ pc[r] = "done"
        /\ request[r] = "heartRateMonitor"
        /\ disconnectCalls[r]["heartRateMonitor"] = 1
        /\ forgetCalls[r]["heartRateMonitor"] = 1
        /\ connected["powerMeter"]

\* C4: in a run, disconnect() is called once on each target whose
\* isConnected() returned true and never on the others, and forgetDevice() is
\* called once on every target: never a second time, whatever failed.
C4_CalledExactlyOnce ==
    \A r \in RunIds : pc[r] # "idle" =>
        \A d \in RoleTargets(r) :
            /\ disconnectCalls[r][d] = (IF d \in sawConnected[r] THEN 1 ELSE 0)
            /\ forgetCalls[r][d] = (IF PastStep1(r) THEN 1 ELSE 0)

\* C4 witness: a finished run over all devices in which a target's disconnect()
\* and forgetDevice() both threw and another target was not connected.
C4_Witness ==
    \E r \in RunIds, d, e \in Devices :
        /\ pc[r] = "done"
        /\ request[r] = Null
        /\ <<"disconnect", d>> \in failed[r]
        /\ <<"forget", d>> \in failed[r]
        /\ e \notin sawConnected[r]
        /\ disconnectCalls[r][e] = 0

\* C5: the promise recover returns is never rejected, and a finished run has
\* resolved it.
C5_NeverRejects ==
    \A r \in RunIds :
        /\ outcome[r] # "rejected"
        /\ pc[r] = "done" => outcome[r] = "resolved"

\* C5 witness: a run resolved after a device operation and a sweep sub-step
\* both failed.
C5_Witness ==
    \E r \in RunIds :
        /\ outcome[r] = "resolved"
        /\ failed[r] # {}
        /\ sweepFailed[r] # {}

\* C6: a run whose role matches no registered device has made no call on any
\* device or pairing record, started no sweep sub-step, cleared no timer and
\* set none; it is over at once.
C6_NoMatchNoEffect ==
    \A r \in RunIds : (pc[r] # "idle" /\ NoMatch(r)) =>
        /\ pc[r] = "done"
        /\ \A d \in Devices : ~Touched(r, d)
        /\ platformCalls[r] = {}
        /\ processed[r] = {}
        /\ attempted[r] = {}
        /\ cleanups[r] = 0
        /\ \A t \in timers : t[1] # r

\* C6 witness: such a run is over on a platform that has every optional API,
\* a live pairing record and a connected device.
C6_Witness ==
    \E r \in RunIds :
        /\ pc[r] = "done"
        /\ NoMatch(r)
        /\ caps = Caps
        /\ \E i \in DOMAIN paired : paired[i].connected
        /\ \E d \in Devices : connected[d]

\* C7 as stated: a run whose role matches no registered device ends in a way
\* the caller can tell from a completed run: rejected, or resolved with a
\* value other than a completed run's.
C7_NoMatchFails ==
    \A r \in RunIds : (pc[r] = "done" /\ NoMatch(r)) =>
        (outcome[r] = "rejected" \/ returned[r] # Undefined)

\* C7 amended: a run whose role matches no registered device logs a warning
\* and resolves with undefined, which is also how every completed run ends.
C7_NoMatchResolvesLikeCompleted ==
    \A r \in RunIds : pc[r] = "done" =>
        /\ outcome[r] = "resolved"
        /\ returned[r] = Undefined
        /\ NoMatch(r) <=>
             <<r, "warn", "No managed device instances found", typeName(request[r])>> \in log

\* C7 witness: a run for an unregistered role has ended with its warning.
C7_Witness ==
    \E r \in RunIds :
        /\ pc[r] = "done"
        /\ request[r] = UnknownRole
        /\ outcome[r] = "resolved"
        /\ <<r, "warn", "No managed device instances found", UnknownRole>> \in log

\* The report C8 describes: per target and phase, whether the operation
\* succeeded.
ExpectedReport(r) ==
    [d \in RoleTargets(r) |->
        [disconnected |-> ~DisconnectThrew(r, d),
         forgotten    |-> <<"forget", d>> \notin failed[r]]]

C9_EverySubStepAttempted ==
    \A r \in RunIds :
        (variant = "extended" /\ pc[r] \in {"settle1000", "done"} /\ ~NoMatch(r)) =>
            /\ "bluetooth" \in caps => "getDevices" \in attempted[r]
            /\ "caches" \in caps => "caches" \in attempted[r]
            /\ "indexedDB" \in caps => "indexedDB" \in attempted[r]
            /\ stores \subseteq attempted[r]

\* C10: once getDevices() has returned its records, the loop body runs for
\* each of them in turn, and for all of them by the time the loop is left,
\* whichever records failed.
C10_EveryRecordProcessed ==
    \A r \in RunIds :
        /\ pc[r] \in {"recDisconnect", "recForget"} => processed[r] = 1..idx[r]
        /\ (PastLoop(r) /\ "getDevices" \in attempted[r]
                /\ <<"getDevices", 0>> \notin sweepFailed[r])
              => processed[r] = 1..Len(paired)

\* C10 witness: the first of two records failed to disconnect and the second
\* was forgotten.
C10_Witness ==
    \E r \in RunIds :
        /\ PastLoop(r)
        /\ Len(paired) >= 2
        /\ <<"recDisconnect", 1>> \in sweepFailed[r]
        /\ <<2, "forget">> \in platformCalls[r]

\* Sub-step x of run r has neither started nor left a failure behind.
Untouched(r, x) ==
    /\ x \notin attempted[r]
    /\ \A f \in sweepFailed[r] : f[1] # x

\* C11 as stated: an optional capability the platform lacks (getDevices(), a
\* record's forget(), the caches, the database enumeration, either key/value
\* store) has its sub-step do nothing and fail nothing, no warning is logged
\* for it, and the run that ends has run step 4 and the final wait.
C11_AbsentCapabilityIsNoOp ==
    \A r \in RunIds :
        /\ "bluetooth" \notin caps => Untouched(r, "getDevices") /\ platformCalls[r] = {}
        /\ "caches" \notin caps => Untouched(r, "caches")
        /\ "indexedDB" \notin caps => Untouched(r, "indexedDB")
        /\ \A i \in DOMAIN paired :
              ~paired[i].forget =>
                  <<i, "forget">> \notin platformCalls[r] /\ <<"recForget", i>> \notin sweepFailed[r]
        /\ \A x \in Stores \ stores :
              /\ \A f \in sweepFailed[r] : f[1] # x
              /\ <<r, "warn", "Could not clear storage", "-">> \notin log
        /\ (pc[r] = "done" /\ ~NoMatch(r)) => (cleanups[r] = 1 /\ outcome[r] = "resolved")

\* The run is in step 3 or beyond it.
PastStep2(r) == pc[r] \notin {"idle", "step1", "step2"}

\* C12 as stated: the phases are barriers.  No forgetDevice() of a run is
\* pending once its sweep has begun; no operation its sweep started, a
\* requested database deletion included, is pending once step 4 has run; no
\* timer of the run is pending once it has ended.
C12_PhasesAreBarriers ==
    \A r \in RunIds :
        /\ PastStep2(r) => \A d \in Devices : forgetTasks[r][d] # "awaitForget"
        /\ cleanups[r] > 0 => \A x \in dbDeleting : x[1] # r
        /\ pc[r] = "done" => \A t \in timers : t[1] # r

\* The targets whose disconnect() was called and resolved.
DisconnectSucceeded(r) ==
    {d \in Devices : disconnectCalls[r][d] = 1 /\ disconnectTasks[r][d] # "awaitDisconnect"
                        /\ <<"disconnect", d>> \notin failed[r]}

\* C13 as stated: a run that has called forgetDevice() waited the 500 ms
\* settle interval first, whether its disconnects succeeded, failed, or no
\* target was connected.
C13_AlwaysWaitsBeforeForget ==
    \A r \in RunIds :
        (\E d \in Devices : forgetCalls[r][d] > 0) => waited[r] # {}

\* C13 amended: the 500 ms wait belongs to the task of each target whose
\* disconnect() resolved: only those targets wait, and forgetDevice() is first
\* called when every one of these waits has elapsed and no 500 ms timer of
\* the run is pending.
C13_WaitsAfterEachSuccessfulDisconnect ==
    \A r \in RunIds :
        /\ waited[r] \subseteq DisconnectSucceeded(r)
        /\ (\E d \in Devices : forgetCalls[r][d] > 0) =>
              /\ waited[r] = DisconnectSucceeded(r)
              /\ \A d \in Devices : <<r, "settle500", d>> \notin timers

\* C13 witness: forgetDevice() has been called in a run in which one target
\* waited after its disconnect(), the disconnect() of another threw and a
\* third was not connected.
C13_Witness ==
    \E r \in RunIds, d, e, f \in Devices :
        /\ forgetCalls[r][d] = 1 /\ forgetCalls[r][e] = 1 /\ forgetCalls[r][f] = 1
        /\ d \in waited[r]
        /\ <<"disconnect", e>> \in failed[r] /\ e \notin waited[r]
        /\ disconnectCalls[r][f] = 0 /\ f \notin waited[r]

\* The notifications dispatched for run r.
NotificationsOf(r) == SelectSeq(notifications, LAMBDA n : n[1] = r)

\* The presses handled so far that the user confirmed.
Confirmed == SelectSeq(answered, LAMBDA c : c[2])

\* Some run has started and not ended.
InProgress == \E r \in RunIds : pc[r] \notin {"idle", "done"}

\* C14: under FairSpec, where one call is made, a run that has started ends:
\* whenever a run is in progress, later none is.
C14_RunCompletes == InProgress ~> ~InProgress

\* C14 witness: a run has ended after a device operation and a pairing record
\* or getDevices() failed.
C14_Witness ==
    \E r \in RunIds :
        /\ pc[r] = "done"
        /\ outcome[r] = "resolved"
        /\ failed[r] # {}
        /\ cleanups[r] = 1
        /\ \E x \in sweepFailed[r] : x[1] \in {"recDisconnect", "recForget", "getDevices"}

\* C15 as stated, its safety half: a run that waits on a settle timer, the
\* 500 ms one of a disconnect task or the final 1 s one, has that timer
\* pending: no other run's step 4 has cancelled it.
C15_NoSettleTimerCancelled ==
    \A r \in RunIds :
        /\ pc[r] = "settle1000" => <<r, "settle1000", "-">> \in timers
        /\ \A d \in Devices :
              disconnectTasks[r][d] = "awaitTimer" => <<r, "settle500", d>> \in timers

\* C16 as stated, under FairOverlapSpec: every confirmed press ends with its
\* one notification: whenever a handler awaits a run, later every handler that
\* awaited one has dispatched exactly one notification.
C16_EveryConfirmedResetNotified ==
    (\E r \in RunIds : handler[r] # "none" /\ NotificationsOf(r) = << >>)
        ~> (\A r \in RunIds : handler[r] # "none" => Len(NotificationsOf(r)) = 1)

\* C16 where the calls do not overlap (it holds under Spec): the runs awaited
\* by a click handler are as many as the confirmed
\* presses (a declined press starts none); such a run has no notification
\* while it is pending and exactly one, a success, once it is over, having
\* run step 4 and the final wait, whatever failed in it; nothing else is ever
\* dispatched.
C16_OneNotificationPerConfirmedReset ==
    /\ Cardinality({r \in RunIds : handler[r] # "none"}) = Len(Confirmed)
    /\ \A r \in RunIds :
          /\ handler[r] = "none" => NotificationsOf(r) = << >>
          /\ (handler[r] # "none" /\ pc[r] # "done") => NotificationsOf(r) = << >>
          /\ (handler[r] # "none" /\ pc[r] = "done") =>
                /\ NotificationsOf(r) = << <<r, "success">> >>
                /\ cleanups[r] = 1
                /\ returned[r] = Undefined
    /\ \A i \in DOMAIN notifications : notifications[i][1] \in RunIds

\* C16 witness: a confirmed "reset all" has its one notification after a run in
\* which a disconnect() and a sweep sub-step failed.
C16_Witness ==
    \E r \in RunIds :
        /\ handler[r] = "onResetAll"
        /\ answered = << <<"onResetAll", TRUE>> >>
        /\ notifications = << <<r, "success">> >>
        /\ \E d \in Devices : <<"disconnect", d>> \in failed[r]
        /\ sweepFailed[r] # {}

\* The step in which run r purges both stores and neither purge throws.
StoragePurged(r) ==
    /\ "localStorage" \notin attempted[r]
    /\ Stores \subseteq attempted'[r]
    /\ <<"localStorage", 0>> \notin sweepFailed'[r]
    /\ <<"sessionStorage", 0>> \notin sweepFailed'[r]

\* The name of key k, in lower case, contains 'bluetooth', 'ble' or 'device'.
KeyNamesBle(k) == \E word \in {bluetooth, ble, device} : includes(toLowerCase(k), word)

\* The entries of store `before` whose key does not name BLE, as they were.
KeptOf(before, after) ==
    /\ DOMAIN after = {k \in DOMAIN before : ~KeyNamesBle(k)}
    /\ \A k \in DOMAIN after : after[k] = before[k]

\* C17: a storage purge that succeeds leaves in localStorage and in
\* sessionStorage exactly the entries whose key, in lower case, contains none
\* of 'bluetooth', 'ble', 'device', with the values they had.
C17_PurgeKeepsExactlyTheOtherKeys ==
    [][\A r \in RunIds : StoragePurged(r) =>
          /\ KeptOf(localStorage, localStorage')
          /\ KeptOf(sessionStorage, sessionStorage')]_vars

\* C17 witness: after a purge that succeeded, of the keys "BLE-id" and "theme"
\* localStorage holds "theme" alone, and of "devices" and "units"
\* sessionStorage holds "units" alone.
C17_Witness ==
    \E r \in RunIds :
        /\ caps = Caps
        /\ Stores \subseteq attempted[r]
        /\ <<"localStorage", 0>> \notin sweepFailed[r]
        /\ <<"sessionStorage", 0>> \notin sweepFailed[r]
        /\ localStorage = StoreWith({<< "t", "h", "e", "m", "e" >>})
        /\ sessionStorage = StoreWith({<< "u", "n", "i", "t", "s" >>})

C19_ForgetFailureIsolated ==
    \A r \in RunIds :
        (\E d \in Devices : <<"forget", d>> \in failed[r])
            => /\ \A e \in RoleTargets(r) : forgetCalls[r][e] = 1
               /\ outcome[r] # "rejected"
               /\ pc[r] = "done" =>
                     /\ "bluetooth" \in caps => "getDevices" \in attempted[r]
                     /\ cleanups[r] = 1
                     /\ returned[r] = Undefined

\* C19 witness: a run over all devices has ended after forgetDevice() threw
\* for one target and resolved for another.
C19_Witness ==
    \E r \in RunIds, d, e \in Devices :
        /\ pc[r] = "done"
        /\ <<"forget", d>> \in failed[r]
        /\ forgetTasks[r][e] = "fulfilled"
        /\ <<"forget", e>> \notin failed[r]
        /\ "getDevices" \in attempted[r]
        /\ cleanups[r] = 1

\* C20: while the disconnect() of a target is pending, the arrow of every
\* other target has already run to its await or its end; while a
\* forgetDevice() is pending, forgetDevice() has been called on every target.
C20_LaunchedBeforeAwaited ==
    \A r \in RunIds :
        /\ (\E d \in Devices : disconnectTasks[r][d] \in {"awaitDisconnect", "awaitTimer"})
              => \A e \in RoleTargets(r) :
                    /\ disconnectTasks[r][e] # "none"
                    /\ e \in sawConnected[r] => disconnectCalls[r][e] = 1
        /\ (\E d \in Devices : forgetTasks[r][d] = "awaitForget")
              => \A e \in RoleTargets(r) :
                    forgetTasks[r][e] # "none" /\ forgetCalls[r][e] = 1

\* C20 witness: the disconnect() of a later target of the registry has settled
\* while that of an earlier target is still pending.
C20_Witness ==
    \E r \in RunIds, i, j \in DOMAIN allDevices :
        /\ i < j
        /\ disconnectTasks[r][allDevices[i]] = "awaitDisconnect"
        /\ disconnectCalls[r][allDevices[j]] = 1
        /\ disconnectTasks[r][allDevices[j]] \in {"awaitTimer", "fulfilled"}

\* C21 as stated: the disconnect and the forget of a pairing record fail
\* independently: a record that exposes forget() has had forget() called on it
\* once its gatt.disconnect() has thrown in the run.
C21_ForgetAttemptedAfterFailedDisconnect ==
    \A r \in RunIds, i \in DOMAIN paired :
        (paired[i].forget /\ <<"recDisconnect", i>> \in sweepFailed[r])
            => <<i, "forget">> \in platformCalls[r]

\* The step in which indexedDB.databases() returns its list to run r.
DatabasesListed(r) ==
    /\ pc[r] = "idbDatabases"
    /\ pc'[r] # "idbDatabases"
    /\ <<"indexedDB", 0>> \notin sweepFailed'[r]

\* C22: a deletion is requested by a run exactly when indexedDB.databases()
\* returns to it, for exactly the listed databases whose name contains
\* 'bluetooth' or 'ble' as written; nothing is requested for another name, a
\* database with no name is never requested and stays listed, and a database
\* leaves the list only by a deletion that was requested for it.
C22_DeletionRequestedExactlyForMatches ==
    [][/\ \A r \in RunIds, n \in DbPool :
             (<<r, n>> \in dbDeleting' /\ <<r, n>> \notin dbDeleting)
                <=> /\ DatabasesListed(r)
                    /\ n \in databases
                    /\ \E word \in {bluetooth, ble} : includes(n, word)
       /\ \A r \in RunIds : <<r, << >> >> \notin dbDeleting'
       /\ \A n \in databases \ databases' : \E r \in RunIds : <<r, n>> \in dbDeleting
       /\ << >> \in databases => << >> \in databases']_vars

\* C22 witness: of the databases "ble-db", "BLE", "app" and one with no name,
\* the deletion of "ble-db" alone has been requested and has deleted it.
C22_Witness ==
    \E r \in RunIds :
        /\ "indexedDB" \in attempted[r]
        /\ <<"indexedDB", 0>> \notin sweepFailed[r]
        /\ pc[r] = "done"
        /\ dbDeleting = {}
        /\ databases = DbPool \ {<< "b", "l", "e", "-", "d", "b" >>}

\* The sweep of run r is over.
SweepOver(r) == pc[r] \in {"settle1000", "done"} /\ ~NoMatch(r)

\* getDevices() returned its records to run r.
RecordsListed(r) == "bluetooth" \in caps /\ <<"getDevices", 0>> \notin sweepFailed[r]

\* Run r went on past the pairing records and the caches to the databases and
\* the stores: the outer catch did not take it to step 4.
ReachedPurge(r) ==
    /\ variant = "extended"
    /\ <<"getDevices", 0>> \notin sweepFailed[r]
    /\ <<"caches", 0>> \notin sweepFailed[r]

\* The calls on pairing records the starting platform and the failures of the
\* run call for: disconnect on every record that was connected, forget on
\* every record that has forget() and whose disconnect did not throw.
RecordCallsFor(r) ==
    IF RecordsListed(r)
      THEN {<<i, "disconnect">> : i \in {j \in DOMAIN start.paired : start.paired[j].connected}}
             \cup {<<i, "forget">> : i \in {j \in DOMAIN start.paired :
                       start.paired[j].forget /\ <<"recDisconnect", j>> \notin sweepFailed[r]}}
      ELSE {}

\* The sub-steps they call for.
SubStepsFor(r) ==
    (IF "bluetooth" \in caps THEN {"getDevices"} ELSE {})
      \cup (IF variant = "extended" /\ "caches" \in caps /\ <<"getDevices", 0>> \notin sweepFailed[r]
              THEN {"caches"} ELSE {})
      \cup (IF ReachedPurge(r) /\ "indexedDB" \in caps THEN {"indexedDB"} ELSE {})
      \cup (IF ReachedPurge(r) THEN {"localStorage"} ELSE {})
      \cup (IF ReachedPurge(r) /\ <<"localStorage", 0>> \notin sweepFailed[r]
              THEN {"sessionStorage"} ELSE {})

\* The names of the starting platform's databases whose deletion they call for.
DeletionsFor(r) ==
    IF ReachedPurge(r) /\ "indexedDB" \in caps /\ <<"indexedDB", 0>> \notin sweepFailed[r]
      THEN {n \in start.databases : \E word \in {bluetooth, ble} : includes(n, word)}
      ELSE {}

C24_SecondRunChangesNothing ==
    \A r \in RunIds \ {1} :
        (pc[r] # "idle" /\ request[r] = request[r - 1] /\ ~NoMatch(r)
              /\ failed[r - 1] = {} /\ failed[r] = {})
            => /\ pc[r - 1] = "done"
               /\ disconnectCalls[r] = Zero
               /\ \A d \in Devices :
                     IF d \in RoleTargets(r)
                       THEN /\ ~connected[d]
                            /\ forgetTasks[r - 1][d] = "fulfilled"
                            /\ pc[r] = "done" =>
                                  forgetCalls[r][d] = 1 /\ forgetTasks[r][d] = "fulfilled"
                       ELSE connected[d] = start.connected[d] /\ ~Touched(r, d)

\* C24 witness: the second of two runs for the heart rate monitor has ended;
\* the first had disconnected it, the second found it disconnected, and the
\* trainer, which is no target, is still connected.
C24_Witness ==
    /\ pc[1] = "done" /\ pc[2] = "done"
    /\ request[1] = "heartRateMonitor" /\ request[2] = "heartRateMonitor"
    /\ failed[1] = {} /\ failed[2] = {}
    /\ disconnectCalls[1]["heartRateMonitor"] = 1
    /\ disconnectCalls[2] = Zero
    /\ forgetCalls[2]["heartRateMonitor"] = 1
    /\ ~connected["heartRateMonitor"]
    /\ connected["controllable"]

\* C25: every enterPIP() / toggle() call resolves in the end, because the
\* wait for the video of enterVideoPIP is always ended by a ready event or by
\* its 5 s timeout, also when a recovery run's clearTimeout loop runs during
\* the wait.  In finite-run form: while a call waits for its video, its
\* timeout is pending.
C25_VideoWaitKeepsItsTimeout ==
    \A k \in CallIds : callPc[k] = "awaitReady" => VideoTimeout(k) \in timers

\* A call waits for its video with no timeout left, after a recovery run went
\* through step 4: only a ready event can end the wait.
C25_WaitWithoutTimeout ==
    \E k \in CallIds, r \in RunIds :
        /\ callPc[k] = "awaitReady"
        /\ VideoTimeout(k) \notin timers
        /\ cleanups[r] = 1

\* A leave event (leavepictureinpicture or pagehide) is queued for the page.
LeavePending == \E i \in 1..Len(pipTasks) : pipTasks[i][1] # "enterpictureinpicture"

\* C26: toggle() called while PIP is active leads to PIP being exited, on the
\* Document PIP path as on the video path.  In finite-run form: from that
\* call until a leave is handled, the exit is under way: the browser has
\* been asked to exit PIP, or a leave event is queued.
C26_ToggleWhileActiveStartsExit == exiting => (exitRequested \/ LeavePending)

\* The same as a progress property, for a browser that does what it is asked.
C26_ToggleWhileActiveExits == exiting ~> (~isPIPActive /\ lastDispatch = "pip:exited")

\* toggle() has returned true for a Document PIP window that stays open:
\* nothing was asked of the browser and the manager is still active.
C26_DocumentWindowStaysOpen ==
    /\ hasDocumentPIP
    /\ exiting /\ isPIPActive /\ pipOpen # 0 /\ pipWindow = pipOpen
    /\ ~exitRequested /\ pipTasks = << >>
    /\ \E k \in CallIds : callPc[k] = "done" /\ callResult[k] = "true" /\ pipOpen # k
    /\ \A k \in CallIds : callPc[k] \in {"idle", "done"}

\* The part of C26 about a browser without PIP: toggle() resolves to false
\* and changes nothing of the manager.
C26_UnsupportedToggleChangesNothing ==
    [][\A k \in CallIds :
          (~isSupported /\ callPc[k] = "idle" /\ callPc'[k] # "idle")
              => /\ callResult'[k] = "false"
                 /\ UNCHANGED << managerVars, pipOpen, exitRequested, pipTasks, pipVideos,
                                 lastDispatch, timers >>]_vars

\* C27: after any sequence of enterPIP, toggle, enter / leave events and
\* pagehide events: while isPIPActive is false, pipWindow is null and
\* pipDocument is null or unset (setupPIPContent, which is none of these
\* operations, aside); when the last pip event dispatched came from a leave,
\* isPIPActive is false; and the manager is active with no PIP window open
\* only while the leave event of the closed window is still to be handled.
C27_InactiveManagerHoldsNoWindow ==
    /\ ~isPIPActive =>
          /\ pipWindow = NullRef
          /\ setupPc # "done" => pipDocument \in {Unset, NullRef}
    /\ lastDispatch = "pip:exited" => ~isPIPActive
    /\ (isPIPActive /\ pipOpen = 0) => LeavePending

\* C27 witness: the leave event of an earlier window has been handled while
\* a later enter call still awaits the platform; the manager is inactive and
\* holds neither window nor document.
C27_Witness ==
    /\ setupPc = "idle"
    /\ \E k \in CallIds :
          /\ callPc[k] \in {"requestWindow", "awaitReady", "requestPiP"}
          /\ \E j \in CallIds : j < k /\ callResult[j] = "true"
    /\ lastDispatch = "pip:exited"
    /\ ~isPIPActive /\ pipWindow = NullRef /\ pipDocument = NullRef
    /\ pipOpen = 0 /\ pipTasks = << >>

\* A press of the control started a toggle() call in this step.
ClickAnswered == \E k \in CallIds : callVia[k] = "none" /\ callVia'[k] = "click"

C29_ServiceIdsSuppliedOrDefault ==
    \A s \in Services :
        env[s] = IF lastArgs[s] = NoValue
                   THEN privateDefaultClientId(s)
                   ELSE Coalesce(lastArgs[s], privateDefaultClientId(s))

\* The part of C29 the code keeps: an id the last call supplied is the id in
\* env, whatever earlier calls supplied.
C29_SuppliedIdsAreTaken ==
    \A s \in Services : lastArgs[s].type = "number" => env[s] = lastArgs[s]

\* A call that supplied one id and left another out: the one left out is
\* undefined, not 0.
C29_OmittedIdIsUndefined ==
    /\ lastArgs["strava"] = JsNumber(1)
    /\ lastArgs["intervals"] = JsUndefined
    /\ env["strava"] = JsNumber(1)
    /\ env["intervals"] = JsUndefined

====
